---------------------------- MODULE Spec2Model ----------------------------
(***************************************************************************)
(* A model of speculum's mirror orchestration layer:                       *)
(*   - DiscoveryCache  (internal/mirror/discovery.go, the version with     *)
(*     inFlight/cond: src/unnamed/part_004 lines 112-297),                 *)
(*   - Mirror          (src/internal/mirror/mirror.go),                    *)
(*   - UpstreamClient  (src/internal/mirror/upstream.go),                  *)
(*   - the filesystem Storage backend (src/internal/storage/filesystem.go).*)
(*                                                                         *)
(* Spec  is the DiscoveryCache under concurrent DiscoverServices, Clear    *)
(* and ClearHost calls.  SpecMirror  is the Mirror serving concurrent      *)
(* GetIndex, GetVersion and GetArchive requests over the filesystem        *)
(* storage, each request a sequence of storage and upstream steps.         *)
(* Strings that the code inspects character by character are sequences of  *)
(* code points; names, paths and URLs that it only joins and splits are    *)
(* sequences of tokens.                                                    *)
(***************************************************************************)
EXTENDS Integers, Sequences, FiniteSets, TLC

VARIABLES
    cache,        \* DiscoveryCache.cache: hostname -> *ServiceDiscovery (a Go map)
    inFlight,     \* DiscoveryCache.inFlight: the hostnames mapped to true
    now,          \* the clock read by time.Now / time.Since
    pc,           \* per caller: where it is inside DiscoverServices
    host,         \* per caller: the hostname argument
    ctx,          \* per caller: its context, "live" or "cancelled"
    signalled,    \* per caller: woken by cond.Broadcast, has not yet re-acquired mu
    disc,         \* per caller: what fetchFromUpstream returned (discovery, err)
    result,       \* per caller: what DiscoverServices returned
    waited,       \* history: the caller has been in cond.Wait during this call
    sawFail,      \* history: the fetch the caller was waiting on ended in an error
    issued,       \* history: the caller has issued an upstream discovery fetch
    files,        \* FilesystemStorage: the files under cacheDir, path -> bytes
    mpc,          \* per request: where it is inside Mirror.GetIndex/GetVersion/GetArchive
    rq,           \* per request: the operation and its arguments
    loc,          \* per request: the local variables that live across its steps
    ret,          \* per request: what the Mirror method returned (data, err)
    ev,           \* history, per request: the upstream and storage calls it has made
    after,        \* history, per request: the requests that had returned when it began
    maxRetries,   \* UpstreamClient.maxRetries
    fpc,          \* one doRequestWithRetry call: where it is
    attempt,      \* doRequestWithRetry: the loop variable
    fctx,         \* doRequestWithRetry: the caller's context, "live" or "cancelled"
    fret,         \* what doRequestWithRetry returned, and the error its caller makes of it
    tried,        \* history: the outcome of each HTTP attempt, in order
    mu            \* DiscoveryCache.mu: the caller that holds it, or 0

callerVars == <<inFlight, pc, host, ctx, signalled, disc, result, waited, sawFail, issued, mu>>
mirrorVars == <<files, mpc, rq, loc, ret, ev, after>>
retryVars == <<maxRetries, fpc, attempt, fctx, fret, tried>>

vars == <<cache, inFlight, now, pc, host, ctx, signalled, disc, result, waited, sawFail,
          issued, files, mpc, rq, loc, ret, ev, after, maxRetries, fpc, attempt, fctx,
          fret, tried, mu>>

---------------------------------------------------------------------------
(* Bounds *)

NumCallers == 3
MaxTime == 2
TTL == 1

Callers == 1..NumCallers
Hosts == {"h1", "h2"}

---------------------------------------------------------------------------
(* Strings as sequences of code points *)

TAB == 9
SPACE == 32
SLASH == 47
COLON == 58
DEL == 127
Ch1 == 49
Chf == 102
Chh == 104
Chp == 112
Chr == 114
Chs == 115
Cht == 116
Chv == 118

StrHttp == <<Chh, Cht, Cht, Chp>>
StrHttps == <<Chh, Cht, Cht, Chp, Chs>>

\* "/v1/"
UrlPath == <<SLASH, Chv, Ch1, SLASH>>
\* "https://r/v1/"
UrlAbsolute == StrHttps \o <<COLON, SLASH, SLASH, Chr, SLASH, Chv, Ch1, SLASH>>
\* ""
UrlEmpty == <<>>
\* "/v 1"
UrlSpace == <<SLASH, Chv, SPACE, Ch1>>
\* "/v\t"
UrlControl == <<SLASH, Chv, TAB>>
\* "ftp://r/"
UrlFtp == <<Chf, Cht, Chp, COLON, SLASH, SLASH, Chr, SLASH>>
\* "https:///v1"
UrlNoHost == StrHttps \o <<COLON, SLASH, SLASH, SLASH, Chv, Ch1>>

\* The providers.v1 values an upstream discovery document may carry.
ProvidersDocs ==
    {UrlPath, UrlAbsolute, UrlEmpty, UrlSpace, UrlControl, UrlFtp, UrlNoHost}

IsLetter(ch) == ch \in 97..122 \/ ch \in 65..90
IsSchemeExtra(ch) == ch \in 48..57 \/ ch \in {43, 45, 46}

HasPrefix(s, p) == Len(s) >= Len(p) /\ SubSeq(s, 1, Len(p)) = p

\* strings.TrimSuffix(s, "/")
TrimSlash(s) == IF Len(s) > 0 /\ s[Len(s)] = SLASH THEN SubSeq(s, 1, Len(s) - 1) ELSE s

\* net/url getScheme: the index of the ':' ending a scheme, 0 when the string has
\* no scheme, -1 for "missing protocol scheme" (a leading ':').
RECURSIVE SchemeEnd(_, _)
SchemeEnd(s, i) ==
    IF i > Len(s) THEN 0
    ELSE IF IsLetter(s[i]) THEN SchemeEnd(s, i + 1)
    ELSE IF IsSchemeExtra(s[i]) THEN (IF i = 1 THEN 0 ELSE SchemeEnd(s, i + 1))
    ELSE IF s[i] = COLON THEN (IF i = 1 THEN -1 ELSE i)
    ELSE 0

\* The index of the first '/' of s at or after i, Len(s)+1 when there is none.
RECURSIVE NextSlash(_, _)
NextSlash(s, i) ==
    IF i > Len(s) THEN Len(s) + 1
    ELSE IF s[i] = SLASH THEN i
    ELSE NextSlash(s, i + 1)

\* url.Parse, for strings without '?', '#', '%', '@', '[' and without a port:
\* the error flag, Scheme and Host it yields.
UrlParse(s) ==
    LET ctl == \E i \in 1..Len(s) : s[i] < 32 \/ s[i] = DEL
        e == SchemeEnd(s, 1)
        scheme == IF e > 0 THEN SubSeq(s, 1, e - 1) ELSE <<>>
        rest == IF e > 0 THEN SubSeq(s, e + 1, Len(s)) ELSE s
        authority == IF HasPrefix(rest, <<SLASH, SLASH>>)
                        /\ (scheme # <<>> \/ ~HasPrefix(rest, <<SLASH, SLASH, SLASH>>))
                     THEN SubSeq(rest, 3, NextSlash(rest, 3) - 1)
                     ELSE <<>>
        badHost == \E i \in 1..Len(authority) : authority[i] = SPACE
        colonSeg == scheme = <<>> /\ ~HasPrefix(rest, <<SLASH>>)
                    /\ \E i \in 1..(NextSlash(rest, 1) - 1) : rest[i] = COLON
    IN  [err |-> ctl \/ e = -1 \/ badHost \/ colonSeg,
         Scheme |-> scheme,
         Host |-> authority]

\* isValidProvidersURL
isValidProvidersURL(urlStr) ==
    IF urlStr = <<>> THEN FALSE
    ELSE IF \E i \in 1..Len(urlStr) :
                urlStr[i] < 32 \/ urlStr[i] = DEL \/ urlStr[i] = SPACE THEN FALSE
    ELSE LET u == UrlParse(urlStr) IN
         IF u.err THEN FALSE
         ELSE IF u.Scheme # <<>>
              THEN IF u.Host = <<>> THEN FALSE
                   ELSE IF u.Scheme # StrHttp /\ u.Scheme # StrHttps THEN FALSE
                   ELSE TRUE
              ELSE TRUE

---------------------------------------------------------------------------
(* Names, paths and URLs of the Mirror: token strings *)

\* A name, path or URL that the Mirror only joins and splits at '/' and '_' is a
\* sequence of tokens: each '/' and each '_' is a token of its own, and every
\* maximal run of other characters is one token.  Cat keeps that form.
Seps == {"/", "_"}

\* String concatenation (a + b, fmt.Sprintf("%s%s", a, b))
Cat(a, b) ==
    IF a # <<>> /\ b # <<>> /\ a[Len(a)] \notin Seps /\ b[1] \notin Seps
    THEN SubSeq(a, 1, Len(a) - 1) \o <<a[Len(a)] \o b[1]>> \o SubSeq(b, 2, Len(b))
    ELSE a \o b

RECURSIVE CatAll(_)
CatAll(parts) == IF parts = <<>> THEN <<>> ELSE Cat(parts[1], CatAll(Tail(parts)))

\* strings.Split(s, sep), sep one of the separator tokens
RECURSIVE Split(_, _)
Split(s, sep) ==
    IF \A i \in 1..Len(s) : s[i] # sep THEN <<s>>
    ELSE LET i == CHOOSE k \in 1..Len(s) : s[k] = sep /\ \A j \in 1..(k - 1) : s[j] # sep
         IN  <<SubSeq(s, 1, i - 1)>> \o Split(SubSeq(s, i + 1, Len(s)), sep)

\* strings.TrimSuffix(s, "/")
TrimSuffixSlash(s) == IF s # <<>> /\ s[Len(s)] = "/" THEN SubSeq(s, 1, Len(s) - 1) ELSE s

\* Mirror.baseURL: config.go's default, "http://localhost:8080"
BaseURL == <<"http:", "/", "/", "localhost:8080">>

\* buildDownloadURL
buildDownloadURL(hostname, namespace, providerType, version, os, arch, filename) ==
    CatAll(<<TrimSuffixSlash(BaseURL), <<"/", "download", "/">>, hostname, <<"/">>,
             namespace, <<"/">>, providerType, <<"/">>, version, <<"/">>, os, <<"/">>,
             arch, <<"/">>, filename>>)

buildPlatformKey_OsOnly(os, arch) == os

\* buildPlatformKey
buildPlatformKey(os, arch) == CatAll(<<os, <<"_">>, arch>>)

\* buildProviderFilename
buildProviderFilename(providerType, version, os, arch) ==
    CatAll(<<<<"terraform-provider-">>, providerType, <<"_">>, version, <<"_">>, os,
             <<"_">>, arch, <<".zip">>>>)

parsePlatformKey_SplitN(platform) ==
    LET parts == Split(platform, "_") IN
    IF Len(parts) < 2 THEN [err |-> TRUE, os |-> <<>>, arch |-> <<>>]
    ELSE [err |-> FALSE, os |-> parts[1],
          arch |-> SubSeq(platform, Len(parts[1]) + 2, Len(platform))]

\* parsePlatformKey
parsePlatformKey(platform) ==
    LET parts == Split(platform, "_") IN
    IF Len(parts) # 2 THEN [err |-> TRUE, os |-> <<>>, arch |-> <<>>]
    ELSE [err |-> FALSE, os |-> parts[1], arch |-> parts[2]]

\* url.Parse on a token string: the error flag and u.Path.  A scheme is a first
\* token ending in ':'; the tokens this model uses for schemes are listed.
SchemeTokens == {"http:", "https:", "ftp:"}
CtlTokens == {"\t"}
UrlPathOf(s) ==
    LET hasScheme == s # <<>> /\ s[1] \in SchemeTokens
        rest == IF hasScheme THEN Tail(s) ELSE s
        slashes == {i \in 3..Len(rest) : rest[i] = "/"}
        pathStart == IF slashes = {} THEN Len(rest) + 1
                     ELSE CHOOSE i \in slashes : \A j \in slashes : i <= j
    IN  [err |-> \E i \in 1..Len(s) : s[i] \in CtlTokens,
         Path |-> IF Len(rest) >= 2 /\ rest[1] = "/" /\ rest[2] = "/"
                  THEN SubSeq(rest, pathStart, Len(rest))
                  ELSE IF hasScheme /\ (rest = <<>> \/ rest[1] # "/") THEN <<>>
                  ELSE rest]

\* path.Base
RECURSIVE StripSlashes(_)
StripSlashes(p) == IF p # <<>> /\ p[Len(p)] = "/" THEN StripSlashes(SubSeq(p, 1, Len(p) - 1)) ELSE p

PathBase(p) ==
    IF p = <<>> THEN <<".">>
    ELSE LET q == StripSlashes(p)
             parts == Split(q, "/")
         IN  IF q = <<>> THEN <<"/">> ELSE parts[Len(parts)]

extractFilename_Default(archiveURL) == <<"archive.zip">>

\* Mirror.extractFilename
extractFilename(archiveURL) ==
    LET u == UrlPathOf(archiveURL) IN
    IF u.err
    THEN LET parts == Split(archiveURL, "/") IN parts[Len(parts)]
    ELSE LET base == PathBase(u.Path) IN
         IF base = <<".">> \/ base = <<"/">> \/ base = <<>> THEN <<"archive.zip">> ELSE base

rewriteArchiveURLs_DropMalformed(hostname, namespace, providerType, version, archives) ==
    [platform \in {p \in DOMAIN archives : ~parsePlatformKey(p).err} |->
        [archives[platform] EXCEPT !.URL =
            IF @ = <<>> THEN @
            ELSE buildDownloadURL(hostname, namespace, providerType, version,
                                  parsePlatformKey(platform).os,
                                  parsePlatformKey(platform).arch, extractFilename(@))]]

\* Mirror.rewriteArchiveURLs, on the archives map of a version document
rewriteArchiveURLs(hostname, namespace, providerType, version, archives) ==
    [platform \in DOMAIN archives |->
        LET archive == archives[platform]
            key == parsePlatformKey(platform)
        IN  IF archive.URL # <<>> /\ ~key.err
            THEN [archive EXCEPT !.URL =
                     buildDownloadURL(hostname, namespace, providerType, version,
                                      key.os, key.arch, extractFilename(archive.URL))]
            ELSE archive]

\* The routes of server.New: the handler that a request path reaches, with its URL
\* parameters.  A parameter matches one non-empty path segment.
Router(path) ==
    LET seg == Split(path, "/")
        n == Len(seg)
        full(a, b) == \A i \in a..b : seg[i] # <<>>
    IN  IF n >= 3 /\ seg[1] = <<>> /\ seg[2] = <<"terraform">> /\ seg[3] = <<"providers">>
        THEN IF n = 11 /\ seg[4] = <<"download">> /\ full(5, 11)
             THEN [handler |-> "DownloadHandler", params |-> SubSeq(seg, 5, 11)]
             ELSE IF n >= 7 /\ full(4, 6)
             THEN [handler |-> "MetadataHandler", params |-> SubSeq(seg, 4, 6)]
             ELSE [handler |-> "NotFound", params |-> <<>>]
        ELSE IF path \in {<<"/", "health">>, <<"/", "metrics">>}
        THEN [handler |-> path[2], params |-> <<>>]
        ELSE [handler |-> "NotFound", params |-> <<>>]

---------------------------------------------------------------------------
(* FilesystemStorage *)

\* validateProviderPath: TRUE when it returns nil
validateProviderPath(hostname, namespace, providerType) ==
    /\ hostname # <<>> /\ namespace # <<>> /\ providerType # <<>>
    /\ \A component \in {hostname, namespace, providerType} :
          \A i \in 1..Len(component) : component[i] # "/" /\ component[i] # "\\"

\* Paths are relative to cacheDir.
\* filepath.Join of the components
JoinPath(parts) ==
    LET RECURSIVE J(_)
        J(ps) == IF Len(ps) = 1 THEN ps[1] ELSE CatAll(<<ps[1], <<"/">>, J(Tail(ps))>>)
    IN  J(parts)

indexPath(hostname, namespace, providerType) ==
    JoinPath(<<hostname, namespace, providerType, <<"index.json">>>>)

versionPath(hostname, namespace, providerType, version) ==
    JoinPath(<<hostname, namespace, providerType, Cat(version, <<".json">>)>>)

versionsResponsePath(hostname, namespace, providerType) ==
    JoinPath(<<<<".speculum-internal">>, hostname, namespace, providerType, <<"versions.json">>>>)

\* archivePath: filepath.Clean, the ".." removal and the leading '/' trim, for a
\* path whose components are non-empty and none of which is "." or contains "..".
archivePath(path) == IF path # <<>> /\ path[1] = "/" THEN Tail(path) ELSE path

\* The result of a storage call: (data, err)
NoData == [kind |-> "none"]
ReadOf(fs, path) ==
    IF path \in DOMAIN fs THEN [err |-> <<>>, data |-> fs[path]]
    ELSE [err |-> <<"EOF">>, data |-> NoData]

\* readFile / os.Open on path: the file's bytes, io.EOF when it does not exist, or
\* (fault) an I/O error.
StorageRead(fs, path, fault) ==
    IF fault THEN [err |-> <<"failed to read file">>, data |-> NoData] ELSE ReadOf(fs, path)

StorageWrite_Lost(fs, path, data, fault) == fs

\* atomicWrite: the files after the write, unchanged when it fails.
StorageWrite(fs, path, data, fault) ==
    IF fault THEN fs
    ELSE [x \in (DOMAIN fs) \cup {path} |-> IF x = path THEN data ELSE fs[x]]

\* (err, files) of a write to path
WriteOf(fs, path, data, fault) ==
    [err |-> IF fault THEN <<"failed to write data">> ELSE <<>>,
     files |-> StorageWrite(fs, path, data, fault)]

ErrInvalidPath == [err |-> <<"invalid provider path">>, data |-> NoData]

\* FilesystemStorage.GetIndex
StorageGetIndex(fs, hostname, namespace, providerType, fault) ==
    IF ~validateProviderPath(hostname, namespace, providerType) THEN ErrInvalidPath
    ELSE StorageRead(fs, indexPath(hostname, namespace, providerType), fault)

\* FilesystemStorage.PutIndex
StoragePutIndex(fs, hostname, namespace, providerType, data, fault) ==
    IF ~validateProviderPath(hostname, namespace, providerType)
    THEN [err |-> ErrInvalidPath.err, files |-> fs]
    ELSE WriteOf(fs, indexPath(hostname, namespace, providerType), data, fault)

\* FilesystemStorage.GetVersion
StorageGetVersion(fs, hostname, namespace, providerType, version, fault) ==
    IF ~validateProviderPath(hostname, namespace, providerType) THEN ErrInvalidPath
    ELSE IF version = <<>> THEN [err |-> <<"version cannot be empty">>, data |-> NoData]
    ELSE StorageRead(fs, versionPath(hostname, namespace, providerType, version), fault)

\* FilesystemStorage.PutVersion
StoragePutVersion(fs, hostname, namespace, providerType, version, data, fault) ==
    IF ~validateProviderPath(hostname, namespace, providerType)
    THEN [err |-> ErrInvalidPath.err, files |-> fs]
    ELSE IF version = <<>> THEN [err |-> <<"version cannot be empty">>, files |-> fs]
    ELSE WriteOf(fs, versionPath(hostname, namespace, providerType, version), data, fault)

StorageGetVersionsResponse_Fetched(fs, hostname, namespace, providerType, fault) ==
    [err |-> <<>>,
     data |-> [kind |-> "bulk",
               versions |-> <<[Version |-> <<"1.0.0">>,
                               Platforms |-> <<[OS |-> <<"linux">>, Arch |-> <<"amd64">>]>>]>>]]

\* FilesystemStorage.GetVersionsResponse
StorageGetVersionsResponse(fs, hostname, namespace, providerType, fault) ==
    StorageRead(fs, versionsResponsePath(hostname, namespace, providerType), fault)

\* FilesystemStorage.PutVersionsResponse
StoragePutVersionsResponse(fs, hostname, namespace, providerType, data, fault) ==
    WriteOf(fs, versionsResponsePath(hostname, namespace, providerType), data, fault)

\* FilesystemStorage.GetArchive: the open file's bytes
StorageGetArchive(fs, path, fault) ==
    IF fault THEN [err |-> <<"failed to open archive">>, data |-> NoData]
    ELSE ReadOf(fs, archivePath(path))

\* FilesystemStorage.PutArchive
StoragePutArchive(fs, path, data, fault) ==
    IF path = <<>> THEN [err |-> <<"archive path cannot be empty">>, files |-> fs]
    ELSE WriteOf(fs, archivePath(path), data, fault)

---------------------------------------------------------------------------
(* The upstream registry and the requests *)

NumRequests == 3
Reqs == 1..NumRequests

\* The coordinate of the sample requests.
Hostname == <<"h1">>
Namespace == <<"hashicorp">>
ProviderType == <<"aws">>

V1 == <<"1.0.0">>
V2 == <<"2.0.0">>
\* A version the upstream does not have
V3 == <<"3.0.0">>

\* The key of a hostname in DiscoveryCache.cache
HostKey(hostname) == hostname[1]

\* ErrNotFound (types.go); an error is the chain of its messages, outermost first,
\* and nil is the empty chain.
ErrNotFound == "provider not found"
Nil == <<>>
\* fmt.Errorf("...: %w", err)
Wrap(msg, err) == <<msg>> \o err
\* errors.Is(err, target)
ErrorsIs(err, target) == \E i \in 1..Len(err) : err[i] = target

\* RegistryVersionsResponse as the registry API serves it at {endpoint}/{ns}/{type}/versions
NativeListing ==
    <<[Version |-> V1,
       Platforms |-> <<[OS |-> <<"linux">>, Arch |-> <<"amd64">>],
                       [OS |-> <<"darwin">>, Arch |-> <<"amd64">>]>>],
      [Version |-> V2, Platforms |-> <<>>]>>

\* index.json as the host serves it under the mirror protocol.
MirrorIndex == [kind |-> "index", versions |-> {V1}]

\* "https://cdn/{version}/{os}/{arch}/p.zip"
UpstreamArchiveURL(version, os, arch) ==
    CatAll(<<<<"https:", "/", "/", "cdn", "/">>, version, <<"/">>, os, <<"/">>, arch,
             <<"/", "p.zip">>>>)

\* {version}.json as the host serves it under the mirror protocol: VersionResponse.Archives
MirrorArchives ==
    [platform \in {<<"linux", "_", "amd64">>, <<"darwin", "_", "amd64">>, <<"plan9">>} |->
        IF platform = <<"plan9">>
        THEN [URL |-> UpstreamArchiveURL(V1, <<"plan9">>, <<"any">>), Hashes |-> <<>>]
        ELSE [URL |-> UpstreamArchiveURL(V1, parsePlatformKey(platform).os,
                                         parsePlatformKey(platform).arch),
              Hashes |-> IF platform[1] = "linux" THEN <<"h1:linux">> ELSE <<>>]]

\* The versions for which the host serves a {version}.json
MirrorVersions == {V1}

\* The (version, os, arch) for which the registry API serves download metadata
HasDownload(version, os, arch) ==
    \E i \in DOMAIN NativeListing :
        /\ NativeListing[i].Version = version
        /\ \E j \in DOMAIN NativeListing[i].Platforms :
              NativeListing[i].Platforms[j] = [OS |-> os, Arch |-> arch]

\* The bytes of the archive of (version, os, arch)
ArchiveBytes(version, os, arch) == [kind |-> "zip", version |-> version, os |-> os, arch |-> arch]

\* What doRequestWithRetry ends with: a final HTTP status, or 0 for a transport
\* error on the last attempt.  A 200 is possible only for a resource the upstream has.
Outcomes(exists) == IF exists THEN {200, 404, 500, 0} ELSE {404, 500, 0}

checkStatusCode_Generic(status) ==
    IF status # 200 THEN <<"unexpected status code">> ELSE Nil

\* checkStatusCode
checkStatusCode(status) ==
    IF status = 404 THEN <<ErrNotFound>>
    ELSE IF status # 200 THEN <<"unexpected status code">>
    ELSE Nil

FetchError_Ignored(o) == Nil

FetchError_TransportNotFound(o) == IF o = 0 THEN <<ErrNotFound>> ELSE checkStatusCode(o)

\* fetch followed by checkStatusCode: the error for the outcome o
FetchError(o) == IF o = 0 THEN <<"failed to fetch">> ELSE checkStatusCode(o)

\* DownloadHandler: the storage path of the archive
DownloadPath(hostname, namespace, providerType, filename) ==
    CatAll(<<hostname, <<"/">>, namespace, <<"/">>, providerType, <<"/">>, filename>>)

NoRequest ==
    [op |-> "none", hostname |-> <<>>, namespace |-> <<>>, type |-> <<>>,
     version |-> <<>>, os |-> <<>>, arch |-> <<>>, path |-> <<>>]

\* IndexHandler -> Mirror.GetIndex
GetIndexReq == [NoRequest EXCEPT !.op = "GetIndex", !.hostname = Hostname,
                                 !.namespace = Namespace, !.type = ProviderType]

\* VersionHandler -> Mirror.GetVersion
GetVersionReq(version) == [GetIndexReq EXCEPT !.op = "GetVersion", !.version = version]

\* DownloadHandler -> Mirror.GetArchive
GetArchiveReq(version, os, arch, filename) ==
    [GetIndexReq EXCEPT !.op = "GetArchive", !.version = version, !.os = os, !.arch = arch,
                        !.path = DownloadPath(Hostname, Namespace, ProviderType, filename)]

\* GetIndex requests whose namespace or type validateProviderPath rejects: empty, or
\* with a '/' or a '\' in it
InvalidRequests ==
    {[GetIndexReq EXCEPT !.namespace = bad] : bad \in {<<>>, <<"a", "/", "b">>, <<"a", "\\", "b">>}}
    \cup {[GetIndexReq EXCEPT !.type = <<>>]}

\* The requests clients send in one run: metadata requests, downloads of two
\* platforms under one filename, an index request and a download named index.json,
\* version requests of which one is for a version the upstream does not have, or
\* index requests with an invalid coordinate.
Workloads ==
    {{GetIndexReq, GetVersionReq(V1), GetVersionReq(V2)},
     {GetArchiveReq(V1, <<"linux">>, <<"amd64">>, <<"p.zip">>),
      GetArchiveReq(V1, <<"darwin">>, <<"amd64">>, <<"p.zip">>)},
     {GetIndexReq, GetArchiveReq(V1, <<"linux">>, <<"amd64">>, <<"index.json">>)},
     {GetVersionReq(V1), GetVersionReq(V3)},
     InvalidRequests}

Requests == UNION Workloads

\* The number of requests the server handles at the same time.
MaxConcurrent == 2

NoLocals == [data |-> NoData, bulk |-> NoData]
NoReturn == [err |-> <<"pending">>, data |-> NoData]

\* No request has been received.
RequestsInit ==
    /\ mpc = [r \in Reqs |-> "idle"]
    /\ rq = [r \in Reqs |-> NoRequest]
    /\ loc = [r \in Reqs |-> NoLocals]
    /\ ret = [r \in Reqs |-> NoReturn]
    /\ ev = [r \in Reqs |-> {}]
    /\ after = [r \in Reqs |-> {}]

\* The Mirror over an empty cache directory
MirrorInit == files = <<>> /\ RequestsInit

---------------------------------------------------------------------------
(* DiscoveryCache *)

\* (discovery, err) as fetchFromUpstream and DiscoverServices return it.
NoResult == [err |-> "none", ProvidersV1 |-> <<>>, CachedAt |-> 0]
Failure(e) == [err |-> e, ProvidersV1 |-> <<>>, CachedAt |-> 0]
Discovered(u, t) == [err |-> "", ProvidersV1 |-> u, CachedAt |-> t]

\* The errors of fetchFromUpstream: client.Do failed, status # 200, JSON decode failed.
FetchErrors == {"fetch", "status", "parse"}
ErrInvalidURL == "invalid providers.v1 URL"

CacheValid_Inclusive(h) == h \in DOMAIN cache /\ now - cache[h].CachedAt <= TTL

\* time.Since(cached.CachedAt) < dc.ttl, for a host with a cache entry
CacheValid(h) == h \in DOMAIN cache /\ now - cache[h].CachedAt < TTL

MustWait_Never(h) == FALSE

\* The loop condition of the wait loop: dc.inFlight[hostname]
MustWait(h) == h \in inFlight

\* dc.cache[hostname] = discovery
CachePut(c, h, d) == [x \in (DOMAIN c) \cup {h} |-> IF x = h THEN d ELSE c[x]]

CacheAfterFetch_Unvalidated(c, h, d) == IF d.err # "" THEN c ELSE CachePut(c, h, d)

\* The cache after the fetching caller has the result d of fetchFromUpstream:
\* stored only when there was no error and the URL validates.
CacheAfterFetch(c, h, d) ==
    IF d.err # "" THEN c
    ELSE IF ~isValidProvidersURL(d.ProvidersV1) THEN c
    ELSE CachePut(c, h, d)

\* What the fetching caller returns for the result d of fetchFromUpstream.
ResultAfterFetch(d) ==
    IF d.err # "" THEN d
    ELSE IF ~isValidProvidersURL(d.ProvidersV1) THEN Failure(ErrInvalidURL)
    ELSE d

Broadcast_Signal ==
    [w \in Callers |->
        signalled[w] \/ (pc[w] = "waiting" /\ \A x \in Callers : pc[x] = "waiting" => w <= x)]

\* cond.Broadcast: every caller in cond.Wait is woken.
Broadcast == [w \in Callers |-> signalled[w] \/ pc[w] = "waiting"]

\* After the cache check missed (on entry, or after a wake-up): the wait loop's
\* condition, then either cond.Wait or the in-flight mark and the unlock.
WaitOrFetch(c, h) ==
    IF MustWait(h)
    THEN /\ pc' = [pc EXCEPT ![c] = "waiting"]
         /\ waited' = [waited EXCEPT ![c] = TRUE]
         /\ UNCHANGED <<inFlight, issued>>
    ELSE /\ pc' = [pc EXCEPT ![c] = "fetching"]
         /\ inFlight' = inFlight \cup {h}
         /\ issued' = [issued EXCEPT ![c] = TRUE]
         /\ UNCHANGED waited

\* DiscoverServices up to its first suspension: lock, cache check, wait loop entry.
Call(c, h) ==
    /\ pc[c] = "idle"
    /\ host' = [host EXCEPT ![c] = h]
    /\ IF CacheValid(h)
       THEN /\ pc' = [pc EXCEPT ![c] = "done"]
            /\ result' = [result EXCEPT ![c] = cache[h]]
            /\ UNCHANGED <<inFlight, waited, issued>>
       ELSE /\ WaitOrFetch(c, h)
            /\ UNCHANGED result
    /\ UNCHANGED <<cache, now, ctx, signalled, disc, sawFail, mirrorVars, retryVars, mu>>

\* The caller returns from cond.Wait holding mu: the cache re-check, then the loop
\* condition again.
WakeUp(c) ==
    /\ pc[c] = "waiting"
    /\ signalled[c]
    /\ signalled' = [signalled EXCEPT ![c] = FALSE]
    /\ IF CacheValid(host[c])
       THEN /\ pc' = [pc EXCEPT ![c] = "done"]
            /\ result' = [result EXCEPT ![c] = cache[host[c]]]
            /\ UNCHANGED <<inFlight, waited, issued>>
       ELSE /\ WaitOrFetch(c, host[c])
            /\ UNCHANGED result
    /\ UNCHANGED <<cache, now, host, ctx, disc, sawFail, mirrorVars, retryVars, mu>>

\* fetchFromUpstream returns (outside the lock).  A cancelled context fails the
\* request; CachedAt is time.Now() at this point.
FetchDone(c) ==
    /\ pc[c] = "fetching"
    /\ \E d \in {Failure(e) : e \in FetchErrors}
                \cup {Discovered(u, now) : u \in ProvidersDocs} :
          /\ (ctx[c] = "cancelled" => d = Failure("fetch"))
          /\ disc' = [disc EXCEPT ![c] = d]
    /\ pc' = [pc EXCEPT ![c] = "fetched"]
    /\ UNCHANGED <<cache, inFlight, now, host, ctx, signalled, result, waited, sawFail, issued, mirrorVars, retryVars, mu>>

\* The fetching caller re-acquires mu: delete the in-flight mark, validate, store,
\* Broadcast, return.
Complete(c) ==
    /\ pc[c] = "fetched"
    /\ inFlight' = inFlight \ {host[c]}
    /\ cache' = CacheAfterFetch(cache, host[c], disc[c])
    /\ signalled' = Broadcast
    /\ result' = [result EXCEPT ![c] = ResultAfterFetch(disc[c])]
    /\ sawFail' = [w \in Callers |->
                      sawFail[w] \/ (pc[w] = "waiting" /\ host[w] = host[c]
                                     /\ disc[c].err \in FetchErrors)]
    /\ pc' = [pc EXCEPT ![c] = "done"]
    /\ disc' = [disc EXCEPT ![c] = NoResult]
    /\ UNCHANGED <<now, host, ctx, waited, issued, mirrorVars, retryVars, mu>>

\* The caller's context is cancelled while it is inside DiscoverServices.
Cancel(c) ==
    /\ pc[c] \in {"waiting", "fetching"}
    /\ ctx[c] = "live"
    /\ ctx' = [ctx EXCEPT ![c] = "cancelled"]
    /\ UNCHANGED <<cache, inFlight, now, pc, host, signalled, disc, result, waited, sawFail, issued, mirrorVars, retryVars, mu>>

\* Clear
Clear ==
    /\ cache # <<>>
    /\ cache' = <<>>
    /\ UNCHANGED <<inFlight, now, pc, host, ctx, signalled, disc, result, waited, sawFail, issued, mirrorVars, retryVars, mu>>

ClearHost_All(h) ==
    /\ h \in DOMAIN cache
    /\ cache' = <<>>
    /\ UNCHANGED <<inFlight, now, pc, host, ctx, signalled, disc, result, waited, sawFail, issued, mirrorVars, retryVars, mu>>

\* ClearHost
ClearHost(h) ==
    /\ h \in DOMAIN cache
    /\ cache' = [x \in (DOMAIN cache) \ {h} |-> cache[x]]
    /\ UNCHANGED <<inFlight, now, pc, host, ctx, signalled, disc, result, waited, sawFail, issued, mirrorVars, retryVars, mu>>

\* Time passes.
Tick ==
    /\ now < MaxTime
    /\ now' = now + 1
    /\ UNCHANGED <<cache, callerVars, mirrorVars, retryVars>>

\* Every step caller c can take by itself.
CallerNext(c) == (\E h \in Hosts : Call(c, h)) \/ WakeUp(c) \/ FetchDone(c) \/ Complete(c)

\* NewDiscoveryCache, and no caller yet
DiscoveryInit ==
    /\ cache = <<>>
    /\ inFlight = {}
    /\ now = 0
    /\ pc = [c \in Callers |-> "idle"]
    /\ host = [c \in Callers |-> "h1"]
    /\ ctx = [c \in Callers |-> "live"]
    /\ signalled = [c \in Callers |-> FALSE]
    /\ disc = [c \in Callers |-> NoResult]
    /\ result = [c \in Callers |-> NoResult]
    /\ waited = [c \in Callers |-> FALSE]
    /\ sawFail = [c \in Callers |-> FALSE]
    /\ issued = [c \in Callers |-> FALSE]
    /\ mu = 0

\* No UpstreamClient yet, and no fetch
RetryInit ==
    /\ maxRetries = 0
    /\ fpc = "new"
    /\ attempt = 0
    /\ fctx = "live"
    /\ fret = [resp |-> FALSE, status |-> 0, err |-> <<"pending">>, callerErr |-> <<"pending">>]
    /\ tried = <<>>

Init == DiscoveryInit /\ MirrorInit /\ RetryInit

Next ==
    \/ \E c \in Callers, h \in Hosts : Call(c, h)
    \/ \E c \in Callers : WakeUp(c)
    \/ \E c \in Callers : FetchDone(c)
    \/ \E c \in Callers : Complete(c)
    \/ \E c \in Callers : Cancel(c)
    \/ Clear
    \/ \E h \in Hosts : ClearHost(h)
    \/ Tick

Spec == Init /\ [][Next]_vars

---------------------------------------------------------------------------
(* UpstreamClient *)

\* The outcomes of one upstream discovery request for the host.
DiscoveryOutcomes == {Failure("status"), Discovered(UrlPath, now), Discovered(UrlEmpty, now)}

\* DiscoverServices run with no other caller inside it: the valid cached record,
\* else the result of the fetch whose outcome is d.
DiscoverServices(h, d) == IF CacheValid(h) THEN cache[h] ELSE ResultAfterFetch(d)

\* The cache table that call leaves.
CacheAfterDiscover(h, d) == IF CacheValid(h) THEN cache ELSE CacheAfterFetch(cache, h, d)

\* getProvidersEndpoint: the error, and "https://" + host + path as (host, path)
getProvidersEndpoint(hostname, d) ==
    LET discovery == DiscoverServices(HostKey(hostname), d) IN
    IF discovery.err # ""
    THEN [err |-> <<"service discovery failed", discovery.err>>, host |-> hostname, path |-> <<>>]
    ELSE [err |-> Nil, host |-> hostname, path |-> TrimSlash(discovery.ProvidersV1)]

convertRegistryAPIToIndexResponse_Supported(listing) ==
    [kind |-> "index",
     versions |-> {listing[i].Version : i \in {j \in DOMAIN listing : listing[j].Platforms # <<>>}}]

\* convertRegistryAPIToIndexResponse: the IndexResponse of a listing
convertRegistryAPIToIndexResponse(listing) ==
    [kind |-> "index", versions |-> {listing[i].Version : i \in DOMAIN listing}]

\* The archive bytes the upstream serves at an archive URL
ArchiveAt(archiveURL) ==
    IF Len(archiveURL) >= 10
    THEN ArchiveBytes(<<archiveURL[6]>>, <<archiveURL[8]>>, <<archiveURL[10]>>)
    ELSE ArchiveBytes(<<>>, <<>>, <<>>)

ArchiveURLError_ParseOnly(archiveURL) ==
    IF \E i \in 1..Len(archiveURL) : archiveURL[i] \in CtlTokens
    THEN <<"invalid archive URL">>
    ELSE Nil

\* FetchArchive's URL validation: the error it returns before any request
ArchiveURLError(archiveURL) ==
    IF \E i \in 1..Len(archiveURL) : archiveURL[i] \in CtlTokens
    THEN <<"invalid archive URL">>
    ELSE IF archiveURL = <<>> \/ archiveURL[1] \notin {"http:", "https:"}
    THEN <<"archive URL must use http or https scheme">>
    ELSE IF ~(Len(archiveURL) >= 4 /\ archiveURL[2] = "/" /\ archiveURL[3] = "/"
              /\ archiveURL[4] # "/")
    THEN <<"archive URL must have a host">>
    ELSE Nil

---------------------------------------------------------------------------
(* Mirror *)

IsHit_Never(rd) == FALSE

\* err == nil after the storage read at the head of GetIndex, GetVersion, GetArchive
IsHit(rd) == rd.err = Nil

BestEffort_Surfaced(putErr) == putErr

\* What GetIndex/GetVersion make of the error of a metadata Put: it is logged and
\* dropped.
BestEffort(putErr) == Nil

\* json.Unmarshal of the cached versions response into RegistryVersionsResponse
ParseVersionsResponse(data) ==
    IF data.kind = "bulk" THEN [err |-> Nil, versions |-> data.versions]
    ELSE IF data.kind = "zip" THEN [err |-> <<"failed to parse versions response">>, versions |-> <<>>]
    ELSE [err |-> Nil, versions |-> <<>>]

PlatformsOf_Any(versions, version) ==
    IF versions = <<>> THEN <<>> ELSE versions[1].Platforms

\* buildVersionFromCache's search: the platforms of the first entry for version
PlatformsOf(versions, version) ==
    LET hits == {i \in DOMAIN versions : versions[i].Version = version} IN
    IF hits = {} THEN <<>>
    ELSE versions[CHOOSE i \in hits : \A j \in hits : i <= j].Platforms

\* buildVersionFromCache's loop: response.Archives after the platforms
RECURSIVE BuildArchives(_, _, _, _, _)
BuildArchives(hostname, namespace, providerType, version, platforms) ==
    IF platforms = <<>> THEN <<>>
    ELSE LET n == Len(platforms)
             platform == platforms[n]
             rest == BuildArchives(hostname, namespace, providerType, version,
                                   SubSeq(platforms, 1, n - 1))
             platformKey == buildPlatformKey(platform.OS, platform.Arch)
             filename == buildProviderFilename(providerType, version, platform.OS, platform.Arch)
             archiveURL == buildDownloadURL(hostname, namespace, providerType, version,
                                            platform.OS, platform.Arch, filename)
         IN  [k \in (DOMAIN rest) \cup {platformKey} |->
                 IF k = platformKey THEN [URL |-> archiveURL, Hashes |-> <<>>] ELSE rest[k]]

\* The request returns.
Finish(r, err, data) ==
    /\ mpc' = [mpc EXCEPT ![r] = "done"]
    /\ ret' = [ret EXCEPT ![r] = [err |-> err, data |-> data]]

\* The request goes on to its next step.
Goto(r, step) ==
    /\ mpc' = [mpc EXCEPT ![r] = step]
    /\ UNCHANGED ret

\* The request is received.
Begin(r, q, first) ==
    /\ mpc[r] = "idle"
    /\ \A x \in Reqs : x < r => mpc[x] # "idle"
    /\ Cardinality({x \in Reqs : mpc[x] \notin {"idle", "done"}}) < MaxConcurrent
    /\ \E w \in Workloads : q \in w /\ \A x \in Reqs : mpc[x] # "idle" => rq[x] \in w
    /\ rq' = [rq EXCEPT ![r] = q]
    /\ after' = [after EXCEPT ![r] = {x \in Reqs : mpc[x] = "done"}]
    /\ ev' = [ev EXCEPT ![r] = first]

Log(r, tags) == ev' = [ev EXCEPT ![r] = @ \cup tags]

\* GetIndex, up to the return on a hit
GetIndex(r, q, fault) ==
    LET rd == StorageGetIndex(files, q.hostname, q.namespace, q.type, fault)
    IN  /\ q.op = "GetIndex"
        /\ Begin(r, q, IF fault THEN {"ReadFailed"} ELSE {})
        /\ IF IsHit(rd) THEN Finish(r, Nil, rd.data) ELSE Goto(r, "FetchIndex")
        /\ UNCHANGED <<cache, now, callerVars, retryVars, files, loc>>

FetchIndex_FallbackListing(endpoint) ==
    IF endpoint.err = Nil
    THEN [data |-> convertRegistryAPIToIndexResponse(NativeListing),
          bulk |-> [kind |-> "bulk", versions |-> NativeListing]]
    ELSE [data |-> MirrorIndex, bulk |-> [kind |-> "bulk", versions |-> NativeListing]]

\* UpstreamClient.FetchIndex after getProvidersEndpoint: the index and the raw
\* listing it returns when its request succeeds
FetchIndex(endpoint) ==
    IF endpoint.err = Nil
    THEN [data |-> convertRegistryAPIToIndexResponse(NativeListing),
          bulk |-> [kind |-> "bulk", versions |-> NativeListing]]
    ELSE [data |-> MirrorIndex, bulk |-> NoData]

\* GetIndex: upstream.FetchIndex (discovery outcome d, HTTP outcome o) and the marshal
GetIndex_FetchIndex(r, d, o) ==
    /\ mpc[r] = "FetchIndex"
    /\ LET q == rq[r]
           endpoint == getProvidersEndpoint(q.hostname, d)
           native == endpoint.err = Nil
           err == FetchError(o)
       IN  /\ cache' = CacheAfterDiscover(HostKey(q.hostname), d)
           /\ Log(r, {"Discover", "FetchIndex"}
                     \cup (IF native THEN {"GET versions"}
                                     ELSE {"DiscoverFailed", "GET index.json"})
                     \cup (IF o = 404 THEN {"Upstream404"} ELSE {}))
           /\ IF err # Nil
              THEN Finish(r, err, NoData) /\ UNCHANGED loc
              ELSE /\ Goto(r, "PutIndex")
                   /\ loc' = [loc EXCEPT ![r] = FetchIndex(endpoint)]
    /\ UNCHANGED <<now, callerVars, retryVars, files, rq, after>>

\* GetIndex: storage.PutIndex
GetIndex_PutIndex(r, fault) ==
    /\ mpc[r] = "PutIndex"
    /\ LET q == rq[r]
           put == StoragePutIndex(files, q.hostname, q.namespace, q.type, loc[r].data, fault)
           err == BestEffort(put.err)
       IN  /\ files' = put.files
           /\ Log(r, IF put.err = Nil THEN {"PutIndex"} ELSE {"PutIndexFailed"})
           /\ IF err # Nil THEN Finish(r, err, NoData)
              ELSE IF loc[r].bulk # NoData THEN Goto(r, "PutVersionsResponse")
              ELSE Finish(r, Nil, loc[r].data)
    /\ UNCHANGED <<cache, now, callerVars, retryVars, rq, loc, after>>

\* GetIndex: storage.PutVersionsResponse and the return
GetIndex_PutVersionsResponse(r, fault) ==
    /\ mpc[r] = "PutVersionsResponse"
    /\ LET q == rq[r]
           put == StoragePutVersionsResponse(files, q.hostname, q.namespace, q.type,
                                             loc[r].bulk, fault)
           err == BestEffort(put.err)
       IN  /\ files' = put.files
           /\ Log(r, IF put.err = Nil THEN {"PutVersionsResponse"}
                     ELSE {"PutVersionsResponseFailed"})
           /\ IF err # Nil THEN Finish(r, err, NoData) ELSE Finish(r, Nil, loc[r].data)
    /\ UNCHANGED <<cache, now, callerVars, retryVars, rq, loc, after>>

\* GetVersion, up to the return on a hit
GetVersion(r, version, fault) ==
    LET q == GetVersionReq(version)
        rd == StorageGetVersion(files, q.hostname, q.namespace, q.type, q.version, fault)
    IN  /\ Begin(r, q, IF fault THEN {"ReadFailed"} ELSE {})
        /\ IF IsHit(rd) THEN Finish(r, Nil, rd.data) ELSE Goto(r, "FetchVersion")
        /\ UNCHANGED <<cache, now, callerVars, retryVars, files, loc>>

FetchVersion_Direct(endpoint, o) ==
    [err |-> FetchError(o), requests |-> {"GET version.json"}]

\* UpstreamClient.FetchVersion after getProvidersEndpoint: the error it returns and
\* the HTTP requests it sends, for the HTTP outcome o
FetchVersion(endpoint, o) ==
    IF endpoint.err = Nil THEN [err |-> <<ErrNotFound>>, requests |-> {}]
    ELSE [err |-> FetchError(o), requests |-> {"GET version.json"}]

\* GetVersion: upstream.FetchVersion (discovery outcome d, HTTP outcome o), then the
\* marshal and rewriteArchiveURLs
GetVersion_FetchVersion(r, d, o) ==
    /\ mpc[r] = "FetchVersion"
    /\ LET q == rq[r]
           endpoint == getProvidersEndpoint(q.hostname, d)
           fetched == FetchVersion(endpoint, o)
           err == fetched.err
           rewritten == [kind |-> "version",
                         archives |-> rewriteArchiveURLs(q.hostname, q.namespace, q.type,
                                                         q.version, MirrorArchives)]
       IN  /\ o \in Outcomes(q.version \in MirrorVersions)
           /\ cache' = CacheAfterDiscover(HostKey(q.hostname), d)
           /\ Log(r, {"Discover", "FetchVersion"}
                     \cup fetched.requests
                     \cup (IF endpoint.err = Nil THEN {} ELSE {"DiscoverFailed"})
                     \cup (IF fetched.requests # {} /\ o = 404 THEN {"Upstream404"} ELSE {}))
           /\ IF err # Nil
              THEN /\ IF ErrorsIs(err, ErrNotFound)
                      THEN Goto(r, "buildVersionFromCache")
                      ELSE Finish(r, err, NoData)
                   /\ UNCHANGED loc
              ELSE /\ Goto(r, "PutVersion")
                   /\ loc' = [loc EXCEPT ![r] = [data |-> rewritten, bulk |-> NoData]]
    /\ UNCHANGED <<now, callerVars, retryVars, files, rq, after>>

\* buildVersionFromCache, up to the marshal
buildVersionFromCache(r, fault) ==
    /\ mpc[r] = "buildVersionFromCache"
    /\ LET q == rq[r]
           rd == StorageGetVersionsResponse(files, q.hostname, q.namespace, q.type, fault)
           versionsResp == ParseVersionsResponse(rd.data)
           platforms == PlatformsOf(versionsResp.versions, q.version)
           response == [kind |-> "version",
                        archives |-> BuildArchives(q.hostname, q.namespace, q.type,
                                                   q.version, platforms)]
       IN  /\ Log(r, {"buildVersionFromCache"} \cup (IF fault THEN {"ReadFailed"} ELSE {}))
           /\ IF rd.err # Nil
              THEN /\ Finish(r, Wrap("no cached versions response available", rd.err), NoData)
                   /\ UNCHANGED loc
              ELSE IF versionsResp.err # Nil
              THEN Finish(r, versionsResp.err, NoData) /\ UNCHANGED loc
              ELSE IF Len(platforms) = 0
              THEN Finish(r, <<ErrNotFound>>, NoData) /\ UNCHANGED loc
              ELSE /\ Goto(r, "PutVersion")
                   /\ loc' = [loc EXCEPT ![r] = [data |-> response, bulk |-> NoData]]
    /\ UNCHANGED <<cache, now, callerVars, retryVars, files, rq, after>>

\* GetVersion and buildVersionFromCache: storage.PutVersion and the return
GetVersion_PutVersion(r, fault) ==
    /\ mpc[r] = "PutVersion"
    /\ LET q == rq[r]
           put == StoragePutVersion(files, q.hostname, q.namespace, q.type, q.version,
                                    loc[r].data, fault)
           err == BestEffort(put.err)
       IN  /\ files' = put.files
           /\ Log(r, IF put.err = Nil THEN {"PutVersion"} ELSE {"PutVersionFailed"})
           /\ IF err # Nil THEN Finish(r, err, NoData) ELSE Finish(r, Nil, loc[r].data)
    /\ UNCHANGED <<cache, now, callerVars, retryVars, rq, loc, after>>

\* GetArchive, up to the return on a hit
GetArchive(r, q, fault) ==
    LET rd == StorageGetArchive(files, q.path, fault)
    IN  /\ q.op = "GetArchive"
        /\ Begin(r, q, IF fault THEN {"ReadFailed"} ELSE {})
        /\ IF IsHit(rd) THEN Finish(r, Nil, rd.data) ELSE Goto(r, "FetchDownloadURL")
        /\ UNCHANGED <<cache, now, callerVars, retryVars, files, loc>>

FetchDownloadURL_Fallback(endpoint, o) == FetchError(o)

\* UpstreamClient.FetchDownloadURL after getProvidersEndpoint: the error it returns
\* for the HTTP outcome o
FetchDownloadURL(endpoint, o) ==
    IF endpoint.err # Nil
    THEN <<"failed to discover services">> \o endpoint.err
    ELSE FetchError(o)

\* GetArchive: upstream.FetchDownloadURL (discovery outcome d, HTTP outcome o,
\* download_url u in the registry's answer)
GetArchive_FetchDownloadURL(r, d, o, u) ==
    /\ mpc[r] = "FetchDownloadURL"
    /\ LET q == rq[r]
           endpoint == getProvidersEndpoint(q.hostname, d)
           err == FetchDownloadURL(endpoint, o)
       IN  /\ o \in Outcomes(HasDownload(q.version, q.os, q.arch))
           /\ cache' = CacheAfterDiscover(HostKey(q.hostname), d)
           /\ Log(r, {"Discover", "FetchDownloadURL"}
                     \cup (IF endpoint.err # Nil THEN {"DiscoverFailed"}
                           ELSE {"GET download"}
                                \cup (IF o = 404 THEN {"Upstream404"} ELSE {})))
           /\ IF err # Nil
              THEN Finish(r, Wrap("failed to get download URL", err), NoData) /\ UNCHANGED loc
              ELSE /\ Goto(r, "FetchArchive")
                   /\ loc' = [loc EXCEPT ![r] =
                                [data |-> [kind |-> "downloadInfo", DownloadURL |-> u],
                                 bulk |-> NoData]]
    /\ UNCHANGED <<now, callerVars, retryVars, files, rq, after>>

\* GetArchive: upstream.FetchArchive (HTTP outcome o)
GetArchive_FetchArchive(r, o) ==
    /\ mpc[r] = "FetchArchive"
    /\ LET archiveURL == loc[r].data.DownloadURL
           err == IF ArchiveURLError(archiveURL) # Nil THEN ArchiveURLError(archiveURL)
                  ELSE IF o = 0 THEN <<"failed to fetch">>
                  ELSE IF o # 200 THEN <<"unexpected status code">>
                  ELSE Nil
       IN  /\ Log(r, {"FetchArchive"}
                     \cup (IF ArchiveURLError(archiveURL) = Nil THEN {"GET archive"} ELSE {}))
           /\ IF err # Nil
              THEN Finish(r, Wrap("failed to fetch archive", err), NoData) /\ UNCHANGED loc
              ELSE /\ Goto(r, "PutArchive")
                   /\ loc' = [loc EXCEPT ![r] = [data |-> ArchiveAt(archiveURL), bulk |-> NoData]]
    /\ UNCHANGED <<cache, now, callerVars, retryVars, files, rq, after>>

ArchivePutError_Ignored(putErr) == Nil

\* GetArchive: what the request does with the error of storage.PutArchive
ArchivePutError(putErr) ==
    IF putErr # Nil THEN Wrap("failed to cache archive", putErr) ELSE Nil

\* GetArchive: storage.PutArchive; its failure fails the request
GetArchive_PutArchive(r, fault) ==
    /\ mpc[r] = "PutArchive"
    /\ LET put == StoragePutArchive(files, rq[r].path, loc[r].data, fault)
           err == ArchivePutError(put.err)
       IN  /\ files' = put.files
           /\ Log(r, IF put.err = Nil THEN {"PutArchive"} ELSE {"PutArchiveFailed"})
           /\ IF err # Nil THEN Finish(r, err, NoData) ELSE Goto(r, "Reopen")
    /\ UNCHANGED <<cache, now, callerVars, retryVars, rq, loc, after>>

\* GetArchive: the final storage.GetArchive, whose result is returned
GetArchive_Reopen(r, fault) ==
    /\ mpc[r] = "Reopen"
    /\ LET rd == StorageGetArchive(files, rq[r].path, fault)
       IN  /\ Log(r, IF fault THEN {"ReadFailed"} ELSE {})
           /\ Finish(r, rd.err, rd.data)
    /\ UNCHANGED <<cache, now, callerVars, retryVars, files, rq, loc, after>>

\* IndexHandler, VersionHandlerWithParams, DownloadHandler: the HTTP status of the
\* answer to request q when the Mirror method returned err.  The handlers compare err
\* with == to ErrNotFound (DownloadHandler also to io.EOF).
HandlerStatus(q, err) ==
    IF err = Nil THEN 200
    ELSE IF err = <<ErrNotFound>> THEN 404
    ELSE IF q.op = "GetArchive" /\ err = <<"EOF">> THEN 404
    ELSE 500

NextMirror ==
    \/ \E r \in Reqs, fault \in BOOLEAN : GetIndex(r, GetIndexReq, fault)
    \/ \E r \in Reqs, d \in DiscoveryOutcomes, o \in Outcomes(TRUE) : GetIndex_FetchIndex(r, d, o)
    \/ \E r \in Reqs, fault \in BOOLEAN : GetIndex_PutIndex(r, fault)
    \/ \E r \in Reqs, fault \in BOOLEAN : GetIndex_PutVersionsResponse(r, fault)
    \/ \E r \in Reqs, version \in {V1, V2}, fault \in BOOLEAN : GetVersion(r, version, fault)
    \/ \E r \in Reqs, d \in DiscoveryOutcomes, o \in Outcomes(TRUE) : GetVersion_FetchVersion(r, d, o)
    \/ \E r \in Reqs, fault \in BOOLEAN : buildVersionFromCache(r, fault)
    \/ \E r \in Reqs, fault \in BOOLEAN : GetVersion_PutVersion(r, fault)
    \/ \E r \in Reqs, q \in Requests, fault \in BOOLEAN : GetArchive(r, q, fault)
    \/ \E r \in Reqs, d \in DiscoveryOutcomes, o \in Outcomes(TRUE) :
          GetArchive_FetchDownloadURL(r, d, o, UpstreamArchiveURL(rq[r].version, rq[r].os, rq[r].arch))
    \/ \E r \in Reqs, o \in Outcomes(TRUE) : GetArchive_FetchArchive(r, o)
    \/ \E r \in Reqs, fault \in BOOLEAN : GetArchive_PutArchive(r, fault)
    \/ \E r \in Reqs, fault \in BOOLEAN : GetArchive_Reopen(r, fault)

SpecMirror == Init /\ [][NextMirror]_vars

---------------------------------------------------------------------------
(* GetVersion over a cache directory that already holds a versions response *)

MaxPlatforms == 2

\* RegistryPlatform values
Platforms == [OS : {<<"linux">>, <<"darwin">>}, Arch : {<<"amd64">>, <<"arm64">>}]

\* RegistryVersionsResponse.Versions as an earlier GetIndex may have stored it: an
\* entry for V2, then an entry for V1 with up to MaxPlatforms platforms.
Listings ==
    {<<[Version |-> V2, Platforms |-> <<[OS |-> <<"linux">>, Arch |-> <<"arm64">>]>>],
       [Version |-> V1, Platforms |-> ps]>> :
        ps \in UNION {[1..n -> Platforms] : n \in 0..MaxPlatforms}}

\* The Mirror started over a cache directory that holds one of the listings
InitCached ==
    /\ DiscoveryInit
    /\ RequestsInit
    /\ RetryInit
    /\ \E listing \in Listings :
          files = [path \in {versionsResponsePath(Hostname, Namespace, ProviderType)} |->
                      [kind |-> "bulk", versions |-> listing]]

\* MaxConcurrent GetVersion requests are received.
NextCached ==
    \/ \E r \in 1..MaxConcurrent, version \in {V1, V2, V3}, fault \in BOOLEAN :
          GetVersion(r, version, fault)
    \/ \E r \in Reqs, d \in DiscoveryOutcomes, o \in Outcomes(TRUE) : GetVersion_FetchVersion(r, d, o)
    \/ \E r \in Reqs, fault \in BOOLEAN : buildVersionFromCache(r, fault)
    \/ \E r \in Reqs, fault \in BOOLEAN : GetVersion_PutVersion(r, fault)

SpecCached == InitCached /\ [][NextCached]_vars

---------------------------------------------------------------------------
(* Requests and upstream answers that validation is there for *)

\* Archive URLs that FetchArchive must refuse: unparsable (a control character), a
\* scheme other than http and https, no scheme, relative, and no host
BadArchiveURLs ==
    {<<"https:", "/", "/", "cdn", "/", "\t">>,
     <<"ftp:", "/", "/", "cdn", "/", "p.zip">>,
     <<>>,
     <<"/", "p.zip">>,
     <<"https:", "/", "/", "/", "p.zip">>,
     <<"http:", "p.zip">>}

\* MaxConcurrent requests are received; the index requests have an invalid coordinate,
\* and the registry answers the download requests with any download_url.
NextInputs ==
    \/ \E r \in 1..MaxConcurrent, q \in InvalidRequests, fault \in BOOLEAN : GetIndex(r, q, fault)
    \/ \E r \in Reqs, d \in DiscoveryOutcomes, o \in Outcomes(TRUE) : GetIndex_FetchIndex(r, d, o)
    \/ \E r \in Reqs, fault \in BOOLEAN : GetIndex_PutIndex(r, fault)
    \/ \E r \in Reqs, fault \in BOOLEAN : GetIndex_PutVersionsResponse(r, fault)
    \/ \E r \in 1..MaxConcurrent, fault \in BOOLEAN :
          GetArchive(r, GetArchiveReq(V1, <<"linux">>, <<"amd64">>, <<"p.zip">>), fault)
    \/ \E r \in Reqs, d \in DiscoveryOutcomes, o \in Outcomes(TRUE),
          u \in BadArchiveURLs \cup {UpstreamArchiveURL(V1, <<"linux">>, <<"amd64">>)} :
          GetArchive_FetchDownloadURL(r, d, o, u)
    \/ \E r \in Reqs, o \in Outcomes(TRUE) : GetArchive_FetchArchive(r, o)
    \/ \E r \in Reqs, fault \in BOOLEAN : GetArchive_PutArchive(r, fault)
    \/ \E r \in Reqs, fault \in BOOLEAN : GetArchive_Reopen(r, fault)

SpecInputs == Init /\ [][NextInputs]_vars

---------------------------------------------------------------------------
(* rewriteArchiveURLs and parsePlatformKey on the documents an upstream can send *)

\* Platform keys of Archives: the keys of TestParsePlatformKey that the two functions
\* tell apart
ArchiveKeys ==
    {<<"linux", "_", "amd64">>, <<"darwin", "_", "arm64">>, <<"invalid">>,
     <<"too", "_", "many", "_", "parts", "_", "here">>, <<>>}

\* Archive.URL values: none, a release URL, a URL with a trailing slash, a URL
\* without a path, and one that url.Parse rejects
UpstreamURLs ==
    {<<>>,
     <<"https:", "/", "/", "releases.hashicorp.com", "/", "terraform-provider-aws", "/",
       "1.0.0", "/", "terraform-provider-aws", "_", "1.0.0", "_", "linux", "_", "amd64.zip">>,
     <<"https:", "/", "/", "example.com", "/", "path", "/">>,
     <<"https:", "/", "/", "example.com">>,
     <<"https:", "/", "/", "example.com", "/", "\t", "/", "file.zip">>}

\* Operating systems and architectures, with and without an underscore
PlatformNames == {<<"linux">>, <<"amd64">>, <<"x86", "_", "64">>, <<>>}

\* Mirror.rewriteArchiveURLs on a version document of the upstream: loc[r] is the
\* document that came in, ret[r] the (data, err) that goes out.  json.Marshal of a
\* VersionResponse does not fail.
RewriteArchives(r, archives) ==
    /\ mpc[r] = "idle"
    /\ rq' = [rq EXCEPT ![r] = GetVersionReq(V1)]
    /\ loc' = [loc EXCEPT ![r].data = [kind |-> "version", archives |-> archives]]
    /\ ret' = [ret EXCEPT ![r] =
                  [err |-> Nil,
                   data |-> [kind |-> "version",
                             archives |-> rewriteArchiveURLs(Hostname, Namespace, ProviderType,
                                                             V1, archives)]]]
    /\ mpc' = [mpc EXCEPT ![r] = "done"]
    /\ UNCHANGED <<files, ev, after, now, cache, callerVars, retryVars>>

\* parsePlatformKey on a key: loc[r] is the key, ret[r] the (os, arch, err) it returns
ParsePlatform(r, key) ==
    /\ mpc[r] = "idle"
    /\ loc' = [loc EXCEPT ![r].data = [kind |-> "key", key |-> key]]
    /\ ret' = [ret EXCEPT ![r] =
                  [err |-> IF parsePlatformKey(key).err
                           THEN <<"invalid platform key format">> ELSE Nil,
                   data |-> [kind |-> "platform", os |-> parsePlatformKey(key).os,
                             arch |-> parsePlatformKey(key).arch]]]
    /\ mpc' = [mpc EXCEPT ![r] = "done"]
    /\ UNCHANGED <<rq, files, ev, after, now, cache, callerVars, retryVars>>

NextRewrite ==
    \/ \E urls \in [ArchiveKeys -> UpstreamURLs] :
          RewriteArchives(1, [platform \in ArchiveKeys |->
                                 [URL |-> urls[platform],
                                  Hashes |-> IF Len(urls[platform]) > 4
                                             THEN <<"h1:abc">> ELSE <<>>]])
    \/ \E key \in ArchiveKeys \cup {buildPlatformKey(os, arch) : os, arch \in PlatformNames} :
          ParsePlatform(2, key)

SpecRewrite == Init /\ [][NextRewrite]_vars

---------------------------------------------------------------------------
(* The URLs of the native protocol's requests *)

\* The URL that FetchIndex (op = "FetchIndex") or FetchDownloadURL requests for q
\* when the discovery fetch has outcome d, as the operands of its Sprintf: the
\* endpoint (code points, "https://" + hostname + providers path) and the rest
\* (tokens).  sent is FALSE when the method returns before any request.
UpstreamRequestURL(op, q, d) ==
    LET endpoint == getProvidersEndpoint(q.hostname, d)
        origin == StrHttps \o <<COLON, SLASH, SLASH>> \o [h1 |-> <<Chh, Ch1>>][HostKey(endpoint.host)]
    IN  IF endpoint.err = Nil
        THEN [sent |-> TRUE,
              endpoint |-> origin \o endpoint.path,
              rest |-> IF op = "FetchIndex"
                       THEN CatAll(<<<<"/">>, q.namespace, <<"/">>, q.type, <<"/", "versions">>>>)
                       ELSE CatAll(<<<<"/">>, q.namespace, <<"/">>, q.type, <<"/">>, q.version,
                                     <<"/", "download", "/">>, q.os, <<"/">>, q.arch>>)]
        ELSE IF op = "FetchIndex"
        THEN [sent |-> TRUE,
              endpoint |-> origin,
              rest |-> CatAll(<<<<"/">>, q.namespace, <<"/">>, q.type, <<"/", "index.json">>>>)]
        ELSE [sent |-> FALSE, endpoint |-> <<>>, rest |-> <<>>]

\* FetchIndex or FetchDownloadURL up to its uc.fetch: loc[r].bulk is what
\* DiscoverServices returned, loc[r].data the URL requested.
SendRequest(r, op, d) ==
    /\ mpc[r] = "idle"
    /\ LET q == IF op = "FetchIndex" THEN GetIndexReq
                ELSE GetArchiveReq(V1, <<"linux">>, <<"amd64">>, <<"p.zip">>)
           url == UpstreamRequestURL(op, q, d)
       IN  /\ rq' = [rq EXCEPT ![r] = q]
           /\ loc' = [loc EXCEPT ![r] =
                         [data |-> [kind |-> "request", sent |-> url.sent,
                                    endpoint |-> url.endpoint, rest |-> url.rest],
                          bulk |-> [kind |-> "discovery",
                                    doc |-> DiscoverServices(HostKey(q.hostname), d)]]]
           /\ cache' = CacheAfterDiscover(HostKey(q.hostname), d)
    /\ mpc' = [mpc EXCEPT ![r] = "done"]
    /\ UNCHANGED <<ret, files, ev, after, now, callerVars, retryVars>>

NextEndpoint ==
    \E r \in Reqs, op \in {"FetchIndex", "FetchDownloadURL"},
       d \in {Failure("status")} \cup {Discovered(u, now) : u \in ProvidersDocs} :
        SendRequest(r, op, d)

SpecEndpoint == Init /\ [][NextEndpoint]_vars

---------------------------------------------------------------------------
(* UpstreamClient.doRequestWithRetry: one fetch *)

\* config.go's default of MaxRetries
MaxRetries == 3

\* The status codes the upstream answers with; 0 stands for an attempt that ended in
\* a transport error (httpClient.Do returned an error).
Statuses == {200, 404, 429, 500, 503}

\* NewUpstreamClient with maxRetries m, and a fetch is called
NewUpstreamClient(m) ==
    /\ fpc = "new"
    /\ maxRetries' = m
    /\ fpc' = "request"
    /\ UNCHANGED <<cache, now, callerVars, mirrorVars, attempt, fctx, fret, tried>>

ShouldRetry_Inclusive(a, m) == a <= m

\* attempt < uc.maxRetries
ShouldRetry(a, m) == a < m

exponentialBackoff_Sleep(c) == Nil

\* exponentialBackoff: ctx.Err() when the context is done before the timer fires
exponentialBackoff(c) == IF c = "cancelled" THEN <<"context canceled">> ELSE Nil

\* One iteration of the loop up to the backoff: httpClient.Do ends with outcome o.
\* With a context that is done, Do returns an error.
doRequestWithRetry_Do(o) ==
    /\ fpc = "request"
    /\ fctx = "cancelled" => o = 0
    /\ LET retry == (o = 0 \/ o >= 500) /\ ShouldRetry(attempt, maxRetries)
           err == IF o = 0 THEN <<"failed to fetch", "transport error">> ELSE Nil
       IN  /\ tried' = Append(tried, o)
           /\ IF retry
              THEN fpc' = "backoff" /\ UNCHANGED fret
              ELSE /\ fpc' = "returned"
                   /\ fret' = [resp |-> o # 0, status |-> o, err |-> err,
                               callerErr |-> IF err # Nil THEN err ELSE checkStatusCode(o)]
    /\ UNCHANGED <<cache, now, callerVars, mirrorVars, maxRetries, attempt, fctx>>

\* The backoff of an iteration: the return of ctx.Err(), or the next iteration
doRequestWithRetry_Backoff ==
    /\ fpc = "backoff"
    /\ LET backoffErr == exponentialBackoff(fctx) IN
       IF backoffErr # Nil
       THEN /\ fpc' = "returned"
            /\ fret' = [resp |-> FALSE, status |-> tried[Len(tried)], err |-> backoffErr,
                        callerErr |-> backoffErr]
            /\ UNCHANGED attempt
       ELSE /\ fpc' = "request"
            /\ attempt' = attempt + 1
            /\ UNCHANGED fret
    /\ UNCHANGED <<cache, now, callerVars, mirrorVars, maxRetries, fctx, tried>>

\* The caller's context is cancelled while the fetch runs.
CancelRequest ==
    /\ fpc \in {"request", "backoff"}
    /\ fctx = "live"
    /\ fctx' = "cancelled"
    /\ UNCHANGED <<cache, now, callerVars, mirrorVars, maxRetries, fpc, attempt, fret, tried>>

NextRetry ==
    \/ \E m \in 0..MaxRetries : NewUpstreamClient(m)
    \/ \E o \in {0} \cup Statuses : doRequestWithRetry_Do(o)
    \/ doRequestWithRetry_Backoff
    \/ CancelRequest

SpecRetry == Init /\ [][NextRetry]_vars

---------------------------------------------------------------------------
(* DiscoveryCache with its mutex: every Lock and Unlock of dc.mu is a step *)

UnlockForFetch_Held(c) == c

\* dc.mu.Unlock() after the in-flight mark, before fetchFromUpstream: the holder of
\* mu while caller c fetches
UnlockForFetch(c) == 0

\* dc.mu.Lock() on entry
Lock(c, h) ==
    /\ pc[c] = "idle"
    /\ mu = 0
    /\ mu' = c
    /\ pc' = [pc EXCEPT ![c] = "locked"]
    /\ host' = [host EXCEPT ![c] = h]
    /\ UNCHANGED <<cache, inFlight, now, ctx, signalled, disc, result, waited, sawFail, issued, mirrorVars, retryVars>>

\* Holding mu: the cache check and the wait loop's condition, on entry and after a
\* wake-up alike; then the deferred Unlock of a hit, cond.Wait (which unlocks), or
\* the in-flight mark and the Unlock before the fetch.
CheckLocked(c) ==
    /\ pc[c] = "locked"
    /\ mu = c
    /\ IF CacheValid(host[c])
       THEN /\ pc' = [pc EXCEPT ![c] = "done"]
            /\ result' = [result EXCEPT ![c] = cache[host[c]]]
            /\ mu' = 0
            /\ UNCHANGED <<inFlight, waited, issued>>
       ELSE /\ WaitOrFetch(c, host[c])
            /\ mu' = IF MustWait(host[c]) THEN 0 ELSE UnlockForFetch(c)
            /\ UNCHANGED result
    /\ UNCHANGED <<cache, now, host, ctx, signalled, disc, sawFail, mirrorVars, retryVars>>

\* cond.Wait re-acquires mu after the Broadcast.
Reacquire(c) ==
    /\ pc[c] = "waiting"
    /\ signalled[c]
    /\ mu = 0
    /\ mu' = c
    /\ signalled' = [signalled EXCEPT ![c] = FALSE]
    /\ pc' = [pc EXCEPT ![c] = "locked"]
    /\ UNCHANGED <<cache, inFlight, now, host, ctx, disc, result, waited, sawFail, issued, mirrorVars, retryVars>>

\* dc.mu.Lock() after fetchFromUpstream
Relock(c) ==
    /\ pc[c] = "fetched"
    /\ mu = 0
    /\ mu' = c
    /\ pc' = [pc EXCEPT ![c] = "relocked"]
    /\ UNCHANGED <<cache, inFlight, now, host, ctx, signalled, disc, result, waited, sawFail, issued, mirrorVars, retryVars>>

\* Holding mu again: delete the in-flight mark, validate, store, Broadcast, return
\* (the deferred Unlock).
CompleteLocked(c) ==
    /\ pc[c] = "relocked"
    /\ mu = c
    /\ mu' = 0
    /\ inFlight' = inFlight \ {host[c]}
    /\ cache' = CacheAfterFetch(cache, host[c], disc[c])
    /\ signalled' = Broadcast
    /\ result' = [result EXCEPT ![c] = ResultAfterFetch(disc[c])]
    /\ sawFail' = [w \in Callers |->
                      sawFail[w] \/ (pc[w] = "waiting" /\ host[w] = host[c]
                                     /\ disc[c].err \in FetchErrors)]
    /\ pc' = [pc EXCEPT ![c] = "done"]
    /\ disc' = [disc EXCEPT ![c] = NoResult]
    /\ UNCHANGED <<now, host, ctx, waited, issued, mirrorVars, retryVars>>

\* fetchFromUpstream returns one of: an error, a document that validates, a document
\* that does not.
FetchReturns(c) == FetchDone(c) /\ disc'[c] \in DiscoveryOutcomes

\* Clear and ClearHost take mu for their one statement.  The clock stands still:
\* records leave the cache through Clear and ClearHost.
NextLock ==
    \/ \E c \in Callers, h \in Hosts : Lock(c, h)
    \/ \E c \in Callers : CheckLocked(c)
    \/ \E c \in Callers : Reacquire(c)
    \/ \E c \in Callers : FetchReturns(c)
    \/ \E c \in Callers : Relock(c)
    \/ \E c \in Callers : CompleteLocked(c)
    \/ mu = 0 /\ Clear
    \/ \E h \in Hosts : mu = 0 /\ ClearHost(h)

SpecLock == Init /\ [][NextLock]_vars

\* Every upstream discovery request terminates, a caller that holds mu goes on, and
\* sync.Mutex hands mu to every caller that keeps asking for it.
FairLock ==
    \A c \in Callers :
        /\ WF_vars(FetchReturns(c))
        /\ WF_vars(CheckLocked(c))
        /\ WF_vars(CompleteLocked(c))
        /\ SF_vars(Reacquire(c))
        /\ SF_vars(Relock(c))

SpecLockLive == SpecLock /\ FairLock

---------------------------------------------------------------------------
(* DiscoveryCache: claims *)

\* C1: N concurrent DiscoverServices calls for a hostname with a missing or expired
\* entry make exactly one upstream fetch: a caller that waited for the in-flight
\* fetch never issues a request of its own and returns the record from the cache.
C1_WaitersNeverFetch ==
    \A c \in Callers :
        waited[c] => /\ ~issued[c]
                     /\ (pc[c] = "done" => result[c].ProvidersV1 # <<>>)

\* C2: at most one upstream discovery fetch is in flight per hostname, under every
\* interleaving of DiscoverServices, Clear and ClearHost.
C2_AtMostOneFetchInFlight ==
    \A h \in Hosts :
        Cardinality({c \in Callers : pc[c] \in {"fetching", "fetched"} /\ host[c] = h}) <= 1

\* C2 witness: a fetch for a host is in flight while a second caller for the same
\* host is held in the wait loop and the cache has been cleared meanwhile.
C2_Witness ==
    \E c1, c2 \in Callers :
        /\ c1 # c2 /\ host[c1] = host[c2]
        /\ pc[c1] = "fetching" /\ pc[c2] = "waiting"
        /\ \E c3 \in Callers : pc[c3] = "done" /\ result[c3].err = "" /\ cache = <<>>

\* C3: a caller whose context is cancelled while it waits for another caller's
\* in-flight fetch stops waiting: it can return without the fetch completing.
C3_CancelUnblocksWaiter ==
    \A c \in Callers :
        (pc[c] = "waiting" /\ ctx[c] = "cancelled" /\ ~signalled[c]) => ENABLED CallerNext(c)

\* C4: when the in-flight fetch fails, every caller that was waiting on it gets
\* that error (and so issues no fetch of its own).
C4_ErrorToEveryWaiter ==
    \A c \in Callers :
        sawFail[c] => /\ pc[c] \in {"waiting", "done"}
                      /\ (pc[c] = "done" => result[c].err \in FetchErrors /\ ~issued[c])

\* C5: a DiscoverServices call that fails (fetch error or endpoint validation)
\* leaves the cache table unchanged, and in the state it leaves a call for that
\* hostname finds no fresh record and no fetch in flight, so it fetches afresh.
C5_FailureCachesNothing ==
    [][\A c \in Callers :
          (pc[c] = "fetched" /\ pc'[c] = "done" /\ result'[c].err # "")
          => /\ cache' = cache
             /\ ~(host[c] \in DOMAIN cache' /\ now' - cache'[host[c]].CachedAt < TTL)
             /\ host[c] \notin inFlight']_vars

\* C5 witness: a call failed validation, nothing is cached for its host, and a
\* later call for the same host is fetching without having waited.
C5_Witness ==
    \E c1, c2 \in Callers :
        /\ pc[c1] = "done" /\ result[c1].err = ErrInvalidURL
        /\ host[c2] = host[c1] /\ pc[c2] = "fetching" /\ ~waited[c2]
        /\ host[c1] \notin DOMAIN cache

\* C6: a call returns a record from the cache, without a fetch, exactly when the
\* record exists and now - CachedAt < ttl; a lookup at or after CachedAt + ttl never
\* returns the record: it fetches, or waits for the fetch already in flight.
C6_TTLDecidesHit ==
    [][\A c \in Callers :
          LET h == host'[c] IN
          /\ (pc[c] \in {"idle", "waiting"} /\ pc'[c] = "done")
                => /\ h \in DOMAIN cache /\ now - cache[h].CachedAt < TTL
                   /\ result'[c] = cache[h] /\ issued'[c] = issued[c]
          /\ (pc[c] = "idle" /\ pc'[c] # "idle")
                => IF h \in DOMAIN cache /\ now - cache[h].CachedAt < TTL
                   THEN pc'[c] = "done"
                   ELSE /\ pc'[c] \in {"waiting", "fetching"}
                        /\ (pc'[c] = "fetching") = (h \notin inFlight)]_vars

\* C6 witness: a lookup exactly at CachedAt + ttl has started a fresh fetch.
C6_Witness ==
    \E c \in Callers :
        /\ pc[c] = "fetching" /\ ~waited[c]
        /\ host[c] \in DOMAIN cache
        /\ now - cache[host[c]].CachedAt = TTL

\* C31: every DiscoverServices call that was made eventually returns, when every
\* upstream discovery request terminates.
C31_EveryCallReturns ==
    \A c \in Callers : (pc[c] # "idle") ~> (pc[c] = "done")

\* C31 witness: a caller that waited on a fetch that failed has fetched by itself
\* and returned the validation failure; the caller it waited on returned the fetch
\* error.
C31_Witness ==
    \E c1, c2 \in Callers :
        /\ pc[c1] = "done" /\ pc[c2] = "done" /\ host[c1] = host[c2]
        /\ result[c1].err \in FetchErrors
        /\ waited[c2] /\ issued[c2]
        /\ result[c2].err = ErrInvalidURL
        /\ inFlight = {} /\ mu = 0

\* C32: no caller holds dc.mu while it waits, while its upstream request runs or
\* after DiscoverServices returned; a caller that goes to wait does so only for a
\* fetch of its own hostname; Clear and ClearHost need nothing but the free mutex.
C32_MutexFreeDuringFetch ==
    [][/\ \A c \in Callers : pc'[c] \notin {"locked", "relocked"} => mu' # c
       /\ mu' # 0 => pc'[mu'] \in {"locked", "relocked"}
       /\ \A c \in Callers :
             (pc[c] = "locked" /\ pc'[c] = "waiting") => host[c] \in inFlight
       /\ \A c \in Callers :
             (pc[c] = "locked" /\ pc'[c] # "locked" /\ host[c] \notin inFlight)
             => pc'[c] \in {"done", "fetching"}
       /\ (mu = 0 /\ cache # <<>>) => ENABLED Clear
       /\ \A h \in Hosts : (mu = 0 /\ h \in DOMAIN cache) => ENABLED ClearHost(h)]_vars

\* C32 witness: while the fetch for h1 is in flight, a caller for h2 holds the mutex
\* to finish its own fetch, and a third caller has returned.
C32_Witness ==
    \E a, b, c \in Callers :
        /\ pc[a] = "fetching" /\ host[a] = "h1"
        /\ pc[b] = "relocked" /\ host[b] = "h2" /\ mu = b
        /\ pc[c] = "done"
        /\ inFlight = {"h1", "h2"}

\* C33: ClearHost(h) removes the record of h and no other record, Clear removes
\* every record, and a DiscoverServices call for a hostname without a record never
\* returns from the cache: it fetches, or waits for the fetch in flight.
C33_ClearEvicts ==
    [][/\ \A h \in Hosts :
             ClearHost(h) => /\ DOMAIN cache' = (DOMAIN cache) \ {h}
                             /\ \A x \in DOMAIN cache' : cache'[x] = cache[x]
       /\ Clear => DOMAIN cache' = {}
       /\ \A c \in Callers, h \in Hosts :
             (Call(c, h) /\ h \notin DOMAIN cache)
             => /\ pc'[c] = (IF h \in inFlight THEN "waiting" ELSE "fetching")
                /\ result'[c] = NoResult]_vars

\* C33 witness: the record of h1 was evicted while the record a caller got for h1
\* is still within its TTL; the record of h2 is still cached, and the next call for
\* h1 is fetching.
C33_Witness ==
    \E c1, c2 \in Callers :
        /\ DOMAIN cache = {"h2"}
        /\ pc[c1] = "done" /\ host[c1] = "h1" /\ result[c1].err = ""
        /\ now - result[c1].CachedAt < TTL
        /\ pc[c2] = "fetching" /\ host[c2] = "h1" /\ ~waited[c2]

---------------------------------------------------------------------------
(* Mirror: claims *)

\* The storage path of the document a metadata request asks for
KeyPath(q) ==
    IF q.op = "GetIndex" THEN indexPath(q.hostname, q.namespace, q.type)
    ELSE versionPath(q.hostname, q.namespace, q.type, q.version)

\* C7 as stated: of two successive GetIndex calls for a coordinate, at most one
\* calls upstream FetchIndex.
C7_AtMostOneFetchIndex ==
    \A r1, r2 \in Reqs :
        (rq[r1].op = "GetIndex" /\ r1 \in after[r2] /\ rq[r2] = rq[r1])
        => ~("FetchIndex" \in ev[r1] /\ "FetchIndex" \in ev[r2])

\* C7 amended: when the first GetIndex call returned the index and its PutIndex did
\* not fail, a successive GetIndex call whose storage read does not fail is served
\* from the cache: it returns without calling FetchIndex.
C7_SecondServedFromCache ==
    \A r1, r2 \in Reqs :
        (/\ rq[r1].op = "GetIndex" /\ r1 \in after[r2] /\ rq[r2] = rq[r1]
         /\ ret[r1].err = Nil /\ "PutIndexFailed" \notin ev[r1]
         /\ "ReadFailed" \notin ev[r2])
        => /\ mpc[r2] = "done" /\ ret[r2].err = Nil
           /\ "FetchIndex" \notin ev[r2]

\* C7 witness: the first call fetched and stored the index, the second returned the
\* same index document without an upstream call.
C7_Witness ==
    \E r1, r2 \in Reqs :
        /\ rq[r1].op = "GetIndex" /\ r1 \in after[r2] /\ rq[r2] = rq[r1]
        /\ {"FetchIndex", "PutIndex"} \subseteq ev[r1] /\ ret[r1].err = Nil
        /\ mpc[r2] = "done" /\ ev[r2] = {}
        /\ ret[r2] = ret[r1] /\ ret[r2].data.kind = "index"

\* C8: when storage holds a document under the key of a GetIndex or GetVersion call
\* (and the storage read returns it), the call returns exactly those bytes and makes
\* no upstream call, no discovery call and no storage write.
C8_HitReturnsStoredBytes ==
    [][\A r \in Reqs :
          (/\ mpc[r] = "idle" /\ mpc'[r] # "idle"
           /\ rq'[r].op \in {"GetIndex", "GetVersion"}
           /\ "ReadFailed" \notin ev'[r]
           /\ KeyPath(rq'[r]) \in DOMAIN files)
          => /\ mpc'[r] = "done"
             /\ ret'[r] = [err |-> Nil, data |-> files[KeyPath(rq'[r])]]
             /\ ev'[r] = {}
             /\ files' = files
             /\ cache' = cache]_vars

\* C8 witness: a GetVersion call has returned the version document that an earlier
\* call had stored, with no upstream, discovery or storage-write step.
C8_Witness ==
    \E r1, r2 \in Reqs :
        /\ rq[r1].op = "GetVersion" /\ r1 \in after[r2] /\ rq[r2] = rq[r1]
        /\ "PutVersion" \in ev[r1]
        /\ mpc[r2] = "done" /\ ev[r2] = {}
        /\ ret[r2] = [err |-> Nil, data |-> files[KeyPath(rq[r2])]]
        /\ ret[r2].data.kind = "version"

\* C9 as stated (for later calls whose storage read does not fail): once a GetArchive
\* call has fetched and stored an archive, every later GetArchive call for the same
\* storage path returns the same bytes and makes no FetchDownloadURL or FetchArchive
\* call.
C9_LaterGetArchiveSameBytes ==
    \A r1, r2 \in Reqs :
        (/\ rq[r1].op = "GetArchive" /\ rq[r2].op = "GetArchive"
         /\ rq[r2].path = rq[r1].path /\ r1 \in after[r2]
         /\ "PutArchive" \in ev[r1] /\ ret[r1].err = Nil
         /\ mpc[r2] = "done" /\ "ReadFailed" \notin ev[r2])
        => /\ ret[r2] = ret[r1]
           /\ ev[r2] \cap {"FetchDownloadURL", "FetchArchive"} = {}

\* C10: a GetIndex or GetVersion call during which PutIndex, PutVersionsResponse or
\* PutVersion failed still returns the fetched or built document, and no error.
C10_PutFailureNotSurfaced ==
    \A r \in Reqs :
        (/\ rq[r].op \in {"GetIndex", "GetVersion"}
         /\ ev[r] \cap {"PutIndexFailed", "PutVersionsResponseFailed", "PutVersionFailed"} # {})
        => /\ mpc[r] \in {"PutVersionsResponse", "done"}
           /\ mpc[r] = "done" => /\ ret[r] = [err |-> Nil, data |-> loc[r].data]
                                 /\ loc[r].data.kind \in {"index", "version"}

\* C10 witness: a GetIndex call whose PutIndex and PutVersionsResponse both failed
\* has returned the index, and a GetVersion call whose PutVersion failed has returned
\* the version document.
C10_Witness ==
    \E r1, r2 \in Reqs :
        /\ rq[r1].op = "GetIndex" /\ mpc[r1] = "done"
        /\ {"PutIndexFailed", "PutVersionsResponseFailed"} \subseteq ev[r1]
        /\ ret[r1].err = Nil /\ ret[r1].data.kind = "index"
        /\ rq[r2].op = "GetVersion" /\ mpc[r2] = "done"
        /\ "PutVersionFailed" \in ev[r2]
        /\ ret[r2].err = Nil /\ ret[r2].data.kind = "version"

\* C11: when PutArchive fails during a cache-miss GetArchive, the request ends there
\* with an error and no byte stream.
C11_PutArchiveFailureFatal ==
    \A r \in Reqs :
        "PutArchiveFailed" \in ev[r]
        => /\ mpc[r] = "done"
           /\ ret[r].err # Nil
           /\ ErrorsIs(ret[r].err, "failed to cache archive")
           /\ ret[r].data = NoData

\* C11 witness: a GetArchive call missed the cache, resolved the download URL,
\* fetched the archive, and returned an error because PutArchive failed.
C11_Witness ==
    \E r \in Reqs :
        /\ rq[r].op = "GetArchive" /\ mpc[r] = "done"
        /\ {"GET download", "GET archive", "PutArchiveFailed"} \subseteq ev[r]
        /\ ret[r].err # Nil /\ ret[r].data = NoData

\* C12: when discovery succeeds for the host, FetchVersion returns the not-found
\* sentinel and sends no per-version request upstream ({version}.json or download
\* endpoint), so the GetVersion call goes on to buildVersionFromCache.
C12_DiscoveryHostBuildsFromCache ==
    [][\A r \in Reqs :
          (mpc[r] = "FetchVersion" /\ mpc'[r] # "FetchVersion" /\ "DiscoverFailed" \notin ev'[r])
          => /\ mpc'[r] = "buildVersionFromCache"
             /\ ev'[r] \cap {"GET version.json", "GET download", "GET versions",
                              "GET index.json", "GET archive"} = {}]_vars

\* C12 witness: a GetVersion call on a host whose discovery succeeded has returned a
\* version document built from the cached listing, with no HTTP request of its own.
C12_Witness ==
    \E r \in Reqs :
        /\ rq[r].op = "GetVersion" /\ mpc[r] = "done"
        /\ {"Discover", "FetchVersion", "buildVersionFromCache"} \subseteq ev[r]
        /\ "DiscoverFailed" \notin ev[r]
        /\ ret[r].err = Nil /\ ret[r].data.kind = "version"

\* C13: when the cached listing's entry for the requested version lists the platform
\* set P (not empty) and the listing is read, buildVersionFromCache builds a version
\* document whose keys are exactly os_arch for (os, arch) in P, each with a URL
\* {baseURL}/download/{hostname}/{namespace}/{type}/{version}/{os}/{arch}/{filename}
\* and no hashes, and GetVersion returns that document.
C13_BuiltFromListing ==
    [][\A r \in Reqs :
          LET q == rq[r]
              path == versionsResponsePath(q.hostname, q.namespace, q.type)
              listing == files[path].versions
              P == UNION {{listing[i].Platforms[j] : j \in DOMAIN listing[i].Platforms} :
                            i \in {k \in DOMAIN listing : listing[k].Version = q.version}}
              archives == loc'[r].data.archives
              route(os, arch) ==
                  BaseURL \o <<"/", "download", "/">> \o q.hostname \o <<"/">> \o q.namespace
                          \o <<"/">> \o q.type \o <<"/">> \o q.version \o <<"/">> \o os
                          \o <<"/">> \o arch \o <<"/">>
          IN  /\ (/\ mpc[r] = "buildVersionFromCache" /\ mpc'[r] # "buildVersionFromCache"
                  /\ path \in DOMAIN files /\ files[path].kind = "bulk"
                  /\ P # {}
                  /\ ~ErrorsIs(ret'[r].err, "failed to read file"))
                 => /\ mpc'[r] = "PutVersion"
                    /\ loc'[r].data.kind = "version"
                    /\ DOMAIN archives = {p.OS \o <<"_">> \o p.Arch : p \in P}
                    /\ \A p \in P :
                          LET a == archives[p.OS \o <<"_">> \o p.Arch]
                              n == Len(route(p.OS, p.Arch))
                          IN  /\ a.Hashes = <<>>
                              /\ Len(a.URL) > n
                              /\ SubSeq(a.URL, 1, n) = route(p.OS, p.Arch)
                              /\ \A i \in (n + 1)..Len(a.URL) : a.URL[i] # "/"
              /\ (mpc[r] = "PutVersion" /\ mpc'[r] = "done" /\ "buildVersionFromCache" \in ev[r])
                 => ret'[r] = [err |-> Nil, data |-> loc[r].data]]_vars

\* C13 witness: for a listing whose entry for 1.0.0 has the platforms linux/amd64 and
\* darwin/amd64, a GetVersion call has returned a built document with exactly the
\* keys linux_amd64 and darwin_amd64.
C13_Witness ==
    \E r \in Reqs :
        /\ mpc[r] = "done" /\ rq[r].version = V1
        /\ "buildVersionFromCache" \in ev[r]
        /\ ret[r].err = Nil /\ ret[r].data.kind = "version"
        /\ DOMAIN ret[r].data.archives = {<<"linux", "_", "amd64">>, <<"darwin", "_", "amd64">>}
        /\ \A k \in DOMAIN ret[r].data.archives : ret[r].data.archives[k].Hashes = <<>>

\* C14: for a version that the cached listing does not contain, buildVersionFromCache
\* (when its read of the listing does not fail) returns the not-found sentinel and no
\* document, and writes nothing to storage.
C14_AbsentVersionNotFound ==
    [][\A r \in Reqs :
          LET q == rq[r]
              path == versionsResponsePath(q.hostname, q.namespace, q.type)
              listing == files[path].versions
          IN  (/\ mpc[r] = "buildVersionFromCache" /\ mpc'[r] # "buildVersionFromCache"
               /\ path \in DOMAIN files /\ files[path].kind = "bulk"
               /\ \A i \in DOMAIN listing : listing[i].Version # q.version
               /\ ~ErrorsIs(ret'[r].err, "failed to read file"))
              => /\ mpc'[r] = "done"
                 /\ ret'[r] = [err |-> <<ErrNotFound>>, data |-> NoData]
                 /\ files' = files]_vars

\* C14 witness: a GetVersion call for 3.0.0, which the cached listing does not
\* contain, has returned the not-found sentinel from buildVersionFromCache, and
\* storage holds no document for 3.0.0.
C14_Witness ==
    \E r \in Reqs :
        /\ rq[r].op = "GetVersion" /\ rq[r].version = V3 /\ mpc[r] = "done"
        /\ "buildVersionFromCache" \in ev[r] /\ "ReadFailed" \notin ev[r]
        /\ ret[r] = [err |-> <<ErrNotFound>>, data |-> NoData]
        /\ versionsResponsePath(Hostname, Namespace, ProviderType) \in DOMAIN files
        /\ versionPath(Hostname, Namespace, ProviderType, V3) \notin DOMAIN files

C19_AllURLsOnDownloadRoute ==
    LET route(q) == BaseURL \o <<"/", "download", "/">> \o q.hostname \o <<"/">>
                            \o q.namespace \o <<"/">> \o q.type \o <<"/">> \o q.version
                            \o <<"/">>
        onRoute(url, q) ==
            LET n == Len(route(q)) IN
            /\ Len(url) >= n + 5
            /\ SubSeq(url, 1, n) = route(q)
            /\ url[n + 2] = "/" /\ url[n + 4] = "/"
            /\ \A i \in {n + 1, n + 3} \cup ((n + 5)..Len(url)) : url[i] # "/"
        allOnRoute(doc, q) ==
            doc.kind = "version" => \A k \in DOMAIN doc.archives : onRoute(doc.archives[k].URL, q)
    IN  \A r \in Reqs :
            rq[r].op = "GetVersion"
            => /\ (mpc[r] = "done" /\ ret[r].err = Nil) => allOnRoute(ret[r].data, rq[r])
               /\ versionPath(rq[r].hostname, rq[r].namespace, rq[r].type, rq[r].version)
                     \in DOMAIN files
                  => allOnRoute(files[versionPath(rq[r].hostname, rq[r].namespace,
                                                  rq[r].type, rq[r].version)], rq[r])

\* C20: a request during which the upstream answered 404 for the index, the version
\* document or the download metadata is answered with status 404.
C20_Upstream404Answered404 ==
    \A r \in Reqs :
        (mpc[r] = "done" /\ "Upstream404" \in ev[r])
        => HandlerStatus(rq[r], ret[r].err) = 404

\* C21: a request during which a storage read failed with an error other than
\* NotFound has returned an error and no document; it does not go on to an upstream
\* call.
C21_ReadFailureFatal ==
    \A r \in Reqs :
        "ReadFailed" \in ev[r]
        => mpc[r] = "done" /\ ret[r].err # Nil /\ ret[r].data = NoData

\* C22: a request whose namespace or type is invalid is rejected at once: it has
\* returned an error and has made no discovery or upstream call.
C22_InvalidCoordinateRejected ==
    \A r \in Reqs :
        (rq[r].op # "none" /\ ~validateProviderPath(rq[r].hostname, rq[r].namespace, rq[r].type))
        => /\ mpc[r] = "done" /\ ret[r].err # Nil
           /\ ev[r] = {}

\* C23: for an archive URL that cannot be parsed, whose scheme is neither http nor
\* https, or whose host is empty, FetchArchive returns an error and sends no HTTP
\* request (and nothing is stored); for a well-formed URL it sends the request.
C23_BadArchiveURLNoRequest ==
    [][\A r \in Reqs :
          (mpc[r] = "FetchArchive" /\ mpc'[r] # "FetchArchive")
          => IF loc[r].data.DownloadURL \in BadArchiveURLs
             THEN /\ mpc'[r] = "done"
                  /\ ret'[r].err # Nil /\ ret'[r].data = NoData
                  /\ "GET archive" \notin ev'[r]
                  /\ files' = files
             ELSE "GET archive" \in ev'[r]]_vars

\* C23 witness: GetArchive calls have returned FetchArchive's error for a download
\* URL with the scheme ftp and for one without a host, with no archive request sent.
C23_Witness ==
    \E r1, r2 \in Reqs :
        /\ mpc[r1] = "done" /\ mpc[r2] = "done"
        /\ loc[r1].data = [kind |-> "downloadInfo",
                           DownloadURL |-> <<"ftp:", "/", "/", "cdn", "/", "p.zip">>]
        /\ loc[r2].data = [kind |-> "downloadInfo",
                           DownloadURL |-> <<"https:", "/", "/", "/", "p.zip">>]
        /\ \A r \in {r1, r2} : "FetchArchive" \in ev[r] /\ "GET archive" \notin ev[r]
        /\ ErrorsIs(ret[r1].err, "archive URL must use http or https scheme")
        /\ ErrorsIs(ret[r2].err, "archive URL must have a host")

\* C24: when discovery fails, FetchIndex requests index.json (never /versions) and
\* returns no bulk listing, FetchVersion requests {version}.json, neither returns
\* the discovery error, and GetIndex stores an index but no bulk listing.
C24_DiscoveryFailureFallsBack ==
    \A r \in Reqs :
        "DiscoverFailed" \in ev[r] /\ rq[r].op \in {"GetIndex", "GetVersion"}
        => /\ ~ErrorsIs(ret[r].err, "service discovery failed")
           /\ rq[r].op = "GetIndex"
              => /\ "GET index.json" \in ev[r] /\ "GET versions" \notin ev[r]
                 /\ mpc[r] = "PutIndex" => loc[r].data = MirrorIndex /\ loc[r].bulk = NoData
                 /\ mpc[r] # "PutVersionsResponse"
                 /\ ev[r] \cap {"PutVersionsResponse", "PutVersionsResponseFailed"} = {}
                 /\ (mpc[r] = "done" /\ ret[r].err = Nil)
                    => /\ ret[r].data = MirrorIndex
                       /\ ev[r] \cap {"PutIndex", "PutIndexFailed"} # {}
           /\ rq[r].op = "GetVersion" => "GET version.json" \in ev[r]

\* C24 witness: with discovery failing, a GetIndex has returned the index.json it
\* fetched and stored, a GetVersion has returned a version document, and no bulk
\* listing is stored.
C24_Witness ==
    \E r1, r2 \in Reqs :
        /\ rq[r1].op = "GetIndex" /\ rq[r2].op = "GetVersion"
        /\ \A r \in {r1, r2} : mpc[r] = "done" /\ "DiscoverFailed" \in ev[r] /\ ret[r].err = Nil
        /\ "PutIndex" \in ev[r1] /\ ret[r1].data = MirrorIndex
        /\ ret[r2].data.kind = "version"
        /\ StorageGetIndex(files, rq[r1].hostname, rq[r1].namespace, rq[r1].type, FALSE).err = Nil
        /\ StorageGetVersionsResponse(files, rq[r1].hostname, rq[r1].namespace, rq[r1].type, FALSE).err # Nil

\* C25: FetchIndex returns the not-found sentinel exactly when its request, to
\* /versions or to index.json, was answered 404; every other failure of the request
\* gives an error that is not the sentinel.
C25_FetchIndexNotFoundIff404 ==
    \A r \in Reqs :
        (rq[r].op = "GetIndex" /\ "FetchIndex" \in ev[r])
        => /\ "Upstream404" \in ev[r] <=> ErrorsIs(ret[r].err, ErrNotFound)
           /\ "Upstream404" \in ev[r] => mpc[r] = "done" /\ ret[r].err = <<ErrNotFound>>

\* C25 witness: a /versions request and an index.json request were both answered 404
\* and both GetIndex calls returned the sentinel; a third failed otherwise.
C25_Witness ==
    \E r1, r2, r3 \in Reqs :
        /\ \A r \in {r1, r2, r3} : rq[r].op = "GetIndex" /\ mpc[r] = "done" /\ ret[r].err # Nil
        /\ "GET versions" \in ev[r1] /\ "GET index.json" \in ev[r2]
        /\ ret[r1].err = <<ErrNotFound>> /\ ret[r2].err = <<ErrNotFound>>
        /\ "Upstream404" \notin ev[r3] /\ ~ErrorsIs(ret[r3].err, ErrNotFound)

\* C26: a Put of an index, a version document, the bulk listing or an archive never
\* changes what a Get of another of these four kinds returns, for the coordinate,
\* the versions and the archive paths of the requests.
C26_NamespacesDistinct ==
    [][LET h == Hostname
           n == Namespace
           t == ProviderType
           Versions == {V1, V2, V3}
           Paths == {DownloadPath(h, n, t, f) : f \in {<<"p.zip">>, <<"index.json">>}}
           SameIndex == StorageGetIndex(files', h, n, t, FALSE) = StorageGetIndex(files, h, n, t, FALSE)
           SameVersions == \A v \in Versions :
               StorageGetVersion(files', h, n, t, v, FALSE) = StorageGetVersion(files, h, n, t, v, FALSE)
           SameBulk == StorageGetVersionsResponse(files', h, n, t, FALSE)
                          = StorageGetVersionsResponse(files, h, n, t, FALSE)
           SameArchives == \A path \in Paths :
               StorageGetArchive(files', path, FALSE) = StorageGetArchive(files, path, FALSE)
       IN  \A r \in Reqs :
             /\ (mpc[r] = "PutIndex" /\ mpc'[r] # "PutIndex")
                => SameVersions /\ SameBulk /\ SameArchives
             /\ (mpc[r] = "PutVersion" /\ mpc'[r] # "PutVersion")
                => SameIndex /\ SameBulk /\ SameArchives
             /\ (mpc[r] = "PutVersionsResponse" /\ mpc'[r] # "PutVersionsResponse")
                => SameIndex /\ SameVersions /\ SameArchives
             /\ (mpc[r] = "PutArchive" /\ mpc'[r] # "PutArchive")
                => SameIndex /\ SameVersions /\ SameBulk]_vars

\* C27: after a GetArchive miss the steps run in the order FetchDownloadURL,
\* FetchArchive, PutArchive, storage GetArchive; a step that fails ends the call with
\* its error and no later step runs; FetchDownloadURL and FetchArchive write nothing.
C27_ArchiveMissStepOrder ==
    [][\A r \in Reqs :
          LET next == [FetchDownloadURL |-> "FetchArchive", FetchArchive |-> "PutArchive",
                       PutArchive |-> "Reopen", Reopen |-> "done"]
              failed == \/ mpc[r] = "FetchDownloadURL"
                           /\ ev'[r] \cap {"DiscoverFailed", "Upstream404"} # {}
                        \/ mpc[r] = "FetchArchive" /\ "GET archive" \notin ev'[r]
                        \/ mpc[r] = "PutArchive" /\ "PutArchiveFailed" \in ev'[r]
                        \/ mpc[r] = "Reopen" /\ "ReadFailed" \in ev'[r] \ ev[r]
          IN  (mpc[r] \in DOMAIN next /\ mpc'[r] # mpc[r])
              => /\ mpc'[r] \in {next[mpc[r]], "done"}
                 /\ ev'[r] \ ev[r] \subseteq
                       {"Discover", "DiscoverFailed", "GET download", "Upstream404", "GET archive",
                        "PutArchiveFailed", "ReadFailed"} \cup {mpc[r]}
                 /\ failed => mpc'[r] = "done" /\ ret'[r].err # Nil /\ ret'[r].data = NoData
                 /\ (mpc'[r] = "done" /\ mpc[r] # "Reopen") => ret'[r].err # Nil
                 /\ mpc[r] \in {"FetchDownloadURL", "FetchArchive"} => files' = files]_vars

\* C27 witness: one GetArchive miss ran all four steps and returned the archive, and
\* one ended at a failed FetchArchive.
C27_Witness ==
    \E r1, r3 \in Reqs :
        /\ \A r \in {r1, r3} : rq[r].op = "GetArchive" /\ mpc[r] = "done"
        /\ {"FetchDownloadURL", "FetchArchive", "PutArchive"} \subseteq ev[r1]
        /\ ret[r1].err = Nil /\ ret[r1].data.kind = "zip"
        /\ "FetchArchive" \in ev[r3] /\ ev[r3] \cap {"PutArchive", "PutArchiveFailed"} = {}
        /\ ErrorsIs(ret[r3].err, "failed to fetch archive")

\* C28: when no request is in flight and discovery has succeeded for every request
\* that ran it, a cached index document comes with a cached bulk listing.
C28_IndexImpliesListing ==
    (/\ \A r \in Reqs : mpc[r] \in {"idle", "done"} /\ "DiscoverFailed" \notin ev[r]
     /\ \E r \in Reqs : "GET versions" \in ev[r]
     /\ StorageGetIndex(files, Hostname, Namespace, ProviderType, FALSE).data.kind = "index")
    => StorageGetVersionsResponse(files, Hostname, Namespace, ProviderType, FALSE).err = Nil

\* C29: a GetArchive that missed the cache and whose discovery failed returns an
\* error; it requests neither the download information nor the archive and it
\* writes nothing.
C29_NoArchiveWithoutDiscovery ==
    \A r \in Reqs :
        (rq[r].op = "GetArchive" /\ "DiscoverFailed" \in ev[r])
        => /\ mpc[r] = "done"
           /\ ret[r].err # Nil /\ ret[r].data = NoData
           /\ ErrorsIs(ret[r].err, "failed to discover services")
           /\ ev[r] \cap {"GET download", "FetchArchive", "GET archive",
                          "PutArchive", "PutArchiveFailed"} = {}

\* C29 witness: discovery failed for a GetArchive of the archive that the rewritten
\* version document of the index.json fallback points to; the call returned the
\* error and the archive is not stored.
C29_Witness ==
    \E r \in Reqs :
        /\ rq[r].op = "GetArchive" /\ mpc[r] = "done" /\ "DiscoverFailed" \in ev[r]
        /\ ret[r].err # Nil
        /\ \E platform \in DOMAIN MirrorArchives :
              rewriteArchiveURLs(rq[r].hostname, rq[r].namespace, rq[r].type, rq[r].version,
                                 MirrorArchives)[platform].URL
                 = buildDownloadURL(rq[r].hostname, rq[r].namespace, rq[r].type, rq[r].version,
                                    rq[r].os, rq[r].arch, <<"p.zip">>)
        /\ rq[r].path = DownloadPath(rq[r].hostname, rq[r].namespace, rq[r].type, <<"p.zip">>)
        /\ StorageGetArchive(files, rq[r].path, FALSE).err # Nil

\* C30: once every request has returned, two concurrent requests for the same
\* resource that both missed the cache, both called upstream and both succeeded
\* have returned the same bytes, and if one of them stored its bytes the cache holds
\* exactly those bytes, provided discovery gave every request the same result.
C30_ConcurrentFirstRequestsAgree ==
    \A r1, r2 \in Reqs :
        LET q == rq[r1]
            fetched(r) == ev[r] \cap {"FetchIndex", "FetchVersion", "FetchArchive"} # {}
            stored(r) == ev[r] \cap {"PutIndex", "PutVersion", "PutArchive"} # {}
            cached == IF q.op = "GetIndex"
                      THEN StorageGetIndex(files, q.hostname, q.namespace, q.type, FALSE)
                      ELSE IF q.op = "GetVersion"
                      THEN StorageGetVersion(files, q.hostname, q.namespace, q.type, q.version, FALSE)
                      ELSE StorageGetArchive(files, q.path, FALSE)
        IN  (/\ r1 # r2 /\ q.op # "none" /\ rq[r2] = q
             /\ \A r \in Reqs : mpc[r] = "done"
             /\ r1 \notin after[r2] /\ r2 \notin after[r1]
             /\ \A r \in {r1, r2} : fetched(r) /\ ret[r].err = Nil
             /\ \A r \in Reqs : "Discover" \in ev[r]
                   => ("DiscoverFailed" \in ev[r] <=> "DiscoverFailed" \in ev[r1]))
            => /\ ret[r1].data = ret[r2].data
               /\ (stored(r1) \/ stored(r2)) => cached.err = Nil /\ cached.data = ret[r1].data

C35_DownloadBytesMatchRequest ==
    (\A r \in Reqs : rq[r].op \in {"none", "GetArchive"})
    => \A r \in Reqs :
          (rq[r].op = "GetArchive" /\ mpc[r] = "done" /\ ret[r].err = Nil)
          => ret[r].data = ArchiveBytes(rq[r].version, rq[r].os, rq[r].arch)

\* C36: every archive URL that the mirror built into a version document reaches
\* DownloadHandler through the router, with the hostname, namespace, type and
\* version of the document, the os and arch of the platform key, and the filename.
C36_RewrittenURLsRouted ==
    \A r \in Reqs :
        (rq[r].op = "GetVersion" /\ mpc[r] = "done" /\ ret[r].err = Nil
         /\ ret[r].data.kind = "version")
        => \A k \in DOMAIN ret[r].data.archives :
              LET key == parsePlatformKey(k)
                  url == ret[r].data.archives[k].URL
                  routed == Router(UrlPathOf(url).Path)
              IN  ~key.err
                  => /\ routed.handler = "DownloadHandler"
                     /\ SubSeq(routed.params, 1, 6)
                           = <<rq[r].hostname, rq[r].namespace, rq[r].type, rq[r].version,
                               key.os, key.arch>>
                     /\ routed.params[7] = PathBase(UrlPathOf(url).Path)

\* C37: rewriteArchiveURLs returns the document without an error whatever its platform
\* keys are; an entry whose key is malformed (it does not have exactly one underscore)
\* is still in the document, with the URL and the hashes it came with, and every entry
\* with a well-formed key and a URL has its URL replaced by a download URL of this
\* mirror, also when other keys of the same document are malformed.
C37_MalformedKeyKept ==
    \A r \in Reqs :
        (mpc[r] = "done" /\ loc[r].data.kind = "version") =>
            LET in == loc[r].data.archives
                out == ret[r].data.archives
                wellFormed(p) == Cardinality({i \in 1..Len(p) : p[i] = "_"}) = 1
                prefix == Cat(BaseURL, <<"/", "download", "/">>)
            IN  /\ ret[r].err = Nil
                /\ ret[r].data.kind = "version"
                /\ \A p \in DOMAIN in :
                      /\ p \in DOMAIN out
                      /\ ~wellFormed(p) => out[p] = in[p]
                      /\ (wellFormed(p) /\ in[p].URL # <<>>) =>
                            /\ out[p].URL # in[p].URL
                            /\ SubSeq(out[p].URL, 1, Len(prefix)) = prefix

\* A document with malformed keys that carry URLs next to well-formed ones was rewritten.
C37_Witness ==
    /\ mpc[1] = "done" /\ loc[1].data.kind = "version"
    /\ \A p \in DOMAIN loc[1].data.archives : loc[1].data.archives[p].URL # <<>>
    /\ ret[1].data.archives[<<"invalid">>].URL = loc[1].data.archives[<<"invalid">>].URL
    /\ ret[1].data.archives[<<"linux", "_", "amd64">>].URL
          # loc[1].data.archives[<<"linux", "_", "amd64">>].URL

C40_ParsePlatformKey ==
    \A r \in Reqs :
        (mpc[r] = "done" /\ loc[r].data.kind = "key") =>
            LET key == loc[r].data.key
                underscores(s) == Cardinality({i \in 1..Len(s) : s[i] = "_"})
                ok == ret[r].err = Nil
            IN  /\ ok <=> underscores(key) = 1
                /\ ok => /\ key = ret[r].data.os \o <<"_">> \o ret[r].data.arch
                         /\ underscores(ret[r].data.os) = 0
                         /\ underscores(ret[r].data.arch) = 0
                /\ \A os \in PlatformNames, arch \in PlatformNames :
                      (key = buildPlatformKey(os, arch)
                         /\ underscores(os) = 0 /\ underscores(arch) = 0) =>
                            ok /\ ret[r].data.os = os /\ ret[r].data.arch = arch
                /\ key \in {<<"invalid">>, <<>>,
                            <<"too", "_", "many", "_", "parts", "_", "here">>} => ~ok

\* The key built from linux and amd64 was parsed back to linux and amd64.
C40_Witness ==
    /\ mpc[2] = "done" /\ loc[2].data.kind = "key"
    /\ loc[2].data.key = buildPlatformKey(<<"linux">>, <<"amd64">>)
    /\ ret[2].err = Nil
    /\ ret[2].data.os = <<"linux">> /\ ret[2].data.arch = <<"amd64">>

\* C39: when discovery returned a providers endpoint that is an absolute http(s) URL,
\* the listing or download request goes to that URL, without a trailing slash,
\* followed by /{namespace}/{type}/...; when it returned a path, the request goes to
\* https://{hostname}{path}, without a trailing slash, followed by the same.
C39_RequestsToDiscoveredEndpoint ==
    \A r \in Reqs :
        (mpc[r] = "done" /\ loc[r].data.kind = "request" /\ loc[r].bulk.doc.err = "") =>
            LET providers == loc[r].bulk.doc.ProvidersV1
                absolute == \/ HasPrefix(providers, StrHttp \o <<COLON, SLASH, SLASH>>)
                            \/ HasPrefix(providers, StrHttps \o <<COLON, SLASH, SLASH>>)
                rest == IF rq[r].op = "GetIndex"
                        THEN <<"/", "hashicorp", "/", "aws", "/", "versions">>
                        ELSE <<"/", "hashicorp", "/", "aws", "/", "1.0.0", "/", "download",
                               "/", "linux", "/", "amd64">>
            IN  /\ loc[r].data.sent
                /\ loc[r].data.rest = rest
                /\ loc[r].data.endpoint =
                      IF absolute THEN TrimSlash(providers)
                      ELSE StrHttps \o <<COLON, SLASH, SLASH, Chh, Ch1>> \o TrimSlash(providers)

---------------------------------------------------------------------------
(* doRequestWithRetry: claims *)

\* C16: a fetch makes at most maxRetries + 1 HTTP attempts; an attempt that yields a
\* status below 500 is the last one; a fetch whose attempts all ended in a transport
\* error or a 5xx status, and that was not cancelled in a backoff, has made exactly
\* maxRetries + 1 attempts when it returns, and its caller gets an error.
C16_RetryBound ==
    /\ Len(tried) <= maxRetries + 1
    /\ \A i \in 1..Len(tried) :
          (tried[i] # 0 /\ tried[i] < 500)
          => i = Len(tried) /\ fpc = "returned" /\ fret.status = tried[i]
    /\ (/\ fpc = "returned"
        /\ \A i \in 1..Len(tried) : tried[i] = 0 \/ tried[i] >= 500
        /\ ~ErrorsIs(fret.err, "context canceled"))
       => Len(tried) = maxRetries + 1 /\ fret.callerErr # Nil

\* C16 witness: with maxRetries = 3, a fetch has returned an error after four
\* attempts, of which some ended in a transport error and some in a 5xx status.
C16_Witness ==
    /\ fpc = "returned" /\ maxRetries = MaxRetries
    /\ Len(tried) = MaxRetries + 1
    /\ \E i, j \in 1..Len(tried) : tried[i] = 0 /\ tried[j] >= 500
    /\ \A i \in 1..Len(tried) : tried[i] = 0 \/ tried[i] >= 500
    /\ fret.callerErr # Nil

\* C17: an attempt that yields a successful or a 4xx status ends the fetch at once:
\* the response is returned with that status and no error, no further attempt is
\* made, and the caller of the fetch turns a 404 into the not-found sentinel.
C17_NoRetryBelow500 ==
    [][/\ (/\ fpc = "request" /\ tried' # tried
           /\ tried'[Len(tried')] # 0 /\ tried'[Len(tried')] < 500)
          => /\ fpc' = "returned"
             /\ fret'.resp /\ fret'.err = Nil /\ fret'.status = tried'[Len(tried')]
             /\ fret'.status = 404 => fret'.callerErr = <<ErrNotFound>>
             /\ fret'.status = 200 => fret'.callerErr = Nil
             /\ fret'.status \notin {200, 404}
                   => fret'.callerErr # Nil /\ ~ErrorsIs(fret'.callerErr, ErrNotFound)
       /\ fpc = "returned" => UNCHANGED <<tried, fret>>]_vars

\* C17 witness: a fetch whose first attempt was answered 404 has returned after that
\* one attempt, with retries left, and its caller has the not-found sentinel.
C17_Witness ==
    /\ fpc = "returned" /\ maxRetries = MaxRetries
    /\ tried = <<404>>
    /\ fret.callerErr = <<ErrNotFound>>

\* C18: when the context is cancelled while the retry loop is in a backoff, the
\* fetch can only return, with the cancellation error, and makes no further attempt.
C18_CancelEndsBackoff ==
    [][(fpc = "backoff" /\ fctx = "cancelled" /\ fpc' # fpc)
          => /\ fpc' = "returned"
             /\ fret'.err = <<"context canceled">> /\ ~fret'.resp
             /\ tried' = tried]_vars

\* C18 witness: with retries left, a fetch whose first attempt was answered 500 and
\* whose context was cancelled during the backoff has returned the cancellation
\* error after that one attempt.
C18_Witness ==
    /\ fpc = "returned" /\ maxRetries = MaxRetries
    /\ tried = <<500>>
    /\ fret.err = <<"context canceled">>

=============================================================================
